---- MODULE Spec2Model ----
(***************************************************************************)
(* Verification model of the pprof ingestion core of the Pyroscope VS Code *)
(* extension: PprofParser (parseBuffer, parseTextFormat, parseProtobuf),   *)
(* CallTreeBuilder, and the hand-written wire decoder of pprofProtobuf.ts. *)
(*                                                                         *)
(* Three specifications share the module:                                  *)
(*   Spec        PprofParser.parseBuffer and everything it calls           *)
(*   SpecVarint  encodeVarint followed by readVarint                       *)
(*   SpecWire    the top-level field loop of pprofProtobuf.parseProtobuf   *)
(***************************************************************************)
EXTENDS Integers, Sequences, FiniteSets, TLC

\* Number of samples a modelled profile holds at most.
MaxSamples == 2

(***************************************************************************)
(* 64-bit protobuf integers that are used as keys are sets of bit          *)
(* positions (bit i set <=> i is in the set): TLC's own integers are 32    *)
(* bits wide.  Integers the code does arithmetic on (values, lines,        *)
(* offsets) are TLC integers and stay below 2^31 in every modelled input.  *)
(***************************************************************************)
BitsOf(n) ==
    {i \in 0..30 : (n \div (2^i)) % 2 = 1}

RECURSIVE NatOf(_)
NatOf(bits) ==
    IF bits = {} THEN 0
    ELSE LET i == CHOOSE j \in bits : TRUE
         IN  (2^i) + NatOf(bits \ {i})

MaxOf(S) ==
    CHOOSE m \in S : \A k \in S : k <= m

\* Number(bigint): the nearest IEEE-754 double (53 significant bits, ties to
\* even), again as a set of bit positions.  Exact below 2^53.
NumberOfBigInt(b) ==
    IF b = {} \/ MaxOf(b) <= 52 THEN b
    ELSE LET top  == MaxOf(b)
             low  == top - 52            \* lowest bit position the double keeps
             kept == {i \in b : i >= low}
             half == (low - 1) \in b
             rest == \E i \in b : i < low - 1
             up   == half /\ (rest \/ low \in b)
             \* adding one unit in the last place: clear the run of ones
             \* starting at low and set the first zero above it
             zero == CHOOSE z \in low..(top + 1) :
                        /\ z \notin kept
                        /\ \A y \in low..(z - 1) : y \in kept
         IN  IF up THEN {i \in kept : i > zero} \cup {zero} ELSE kept

(***************************************************************************)
(* JavaScript Map: insertion-ordered sequence of [key, value] entries.     *)
(***************************************************************************)
MapHas(m, k) ==
    \E i \in 1..Len(m) : m[i].key = k

MapIndex(m, k) ==
    CHOOSE i \in 1..Len(m) : m[i].key = k

MapGet(m, k) ==
    m[MapIndex(m, k)].value

MapSet(m, k, v) ==
    IF MapHas(m, k)
    THEN [m EXCEPT ![MapIndex(m, k)] = [key |-> k, value |-> v]]
    ELSE Append(m, [key |-> k, value |-> v])

MapKeys(m) ==
    {m[i].key : i \in 1..Len(m)}

Reverse(s) ==
    [i \in 1..Len(s) |-> s[Len(s) + 1 - i]]

(***************************************************************************)
(* The decoded profile tables the modelled inputs draw from (the entity    *)
(* set of profile.proto as @bufbuild/protobuf hands it to parseProtobuf).  *)
(***************************************************************************)
StringTable ==
    << "", "cpu", "nanoseconds", "count", "main.A", "main.B", "x.go", "y.go",
       "Nanoseconds" >>

\* stringTable[i] with JavaScript's 0-based indexing; "" stands for both the
\* empty string and undefined, which the code treats alike (|| 'unknown').
StringAt(i) ==
    IF i \in 0..(Len(StringTable) - 1) THEN StringTable[i + 1] ELSE ""

Functions ==
    << [id |-> BitsOf(1), name |-> 4, filename |-> 6, startLine |-> 10],
       [id |-> BitsOf(2), name |-> 5, filename |-> 6, startLine |-> 20],
       [id |-> BitsOf(3), name |-> 4, filename |-> 7, startLine |-> 10],
       [id |-> BitsOf(4), name |-> 9, filename |-> 0, startLine |-> 30] >>

Locations ==
    << [id |-> BitsOf(1), line |-> << [functionId |-> BitsOf(1), line |-> 12] >>],
       [id |-> BitsOf(2), line |-> << [functionId |-> BitsOf(1), line |-> 20] >>],
       [id |-> BitsOf(3), line |-> << [functionId |-> BitsOf(2), line |-> 20] >>],
       [id |-> BitsOf(4), line |-> << [functionId |-> BitsOf(2), line |-> 25],
                                      [functionId |-> BitsOf(1), line |-> 12] >>],
       [id |-> BitsOf(5), line |-> << [functionId |-> BitsOf(9), line |-> 7] >>],
       [id |-> BitsOf(6), line |-> << >>],
       [id |-> BitsOf(8), line |-> << [functionId |-> BitsOf(3), line |-> 11] >>],
       [id |-> BitsOf(10), line |-> << [functionId |-> BitsOf(4), line |-> 31] >>],
       [id |-> BitsOf(11), line |-> << [functionId |-> BitsOf(9), line |-> 7],
                                       [functionId |-> BitsOf(2), line |-> 26] >>] >>

\* Stacks of location ids, innermost frame first (Sample.location_id):
\* resolvable frames, the same location twice, one function through two
\* locations, inlined lines, unresolvable functions and locations.
StackNums ==
    { <<1>>, <<3>>, <<1, 3>>, <<1, 1>>, <<1, 2>>, <<2, 3, 1>>,
      <<4>>, <<5>>, <<7, 6, 1>>, <<1, 8>>, <<10, 3>>, <<11>> }

\* Stacks that also occur with a second sample value.
HeavyStackNums ==
    { <<3>>, <<1, 2>> }

LocationIds(nums) ==
    [i \in 1..Len(nums) |-> BitsOf(nums[i])]

\* Stacks that also occur with a negative value (Sample.value is an int64).
\* The negative value is larger in magnitude than any sum of the other values
\* of a profile, so that a total of zero arises only from samples that are all
\* zero: with a zero total made of non-zero values the percentages are a mix of
\* NaN and infinities, under which the order Array.prototype.sort produces is
\* implementation-defined.
NegativeStackNums ==
    { <<1, 3>> }

\* Sample: location ids and one int64 value per sample type (may be empty).
Samples ==
    {[locationId |-> LocationIds(s), value |-> <<-5>>] : s \in NegativeStackNums} \cup
    {[locationId |-> LocationIds(s), value |-> <<1>>] : s \in StackNums}
    \cup {[locationId |-> LocationIds(s), value |-> <<2>>] : s \in HeavyStackNums}
    \cup {[locationId |-> LocationIds(<<1>>), value |-> << >>]}

(***************************************************************************)
(* CallTreeBuilder                                                         *)
(***************************************************************************)
\* CallTreeBuilder.createNodeId
createNodeId(functionName, fileName, line) ==
    fileName \o ":" \o ToString(line) \o ":" \o functionName

NewNode(functionName, fileName, line, id) ==
    [functionName |-> functionName, fileName |-> fileName, line |-> line,
     selfTime |-> 0, totalTime |-> 0,
     selfPercent |-> [n |-> 0, d |-> 1], totalPercent |-> [n |-> 0, d |-> 1],
     samples |-> 0, invocations |-> 0, children |-> << >>, parent |-> "",
     id |-> id]

\* CallTreeBuilder.getOrCreateNode: the builder with the node present, the
\* node being looked up in the builder-wide nodeMap by its id.
getOrCreateNode(nodeMap, functionName, fileName, line) ==
    LET id == createNodeId(functionName, fileName, line)
    IN  IF ~MapHas(nodeMap, id)
        THEN MapSet(nodeMap, id, NewNode(functionName, fileName, line, id))
        ELSE nodeMap

SeqHas(s, x) ==
    \E i \in 1..Len(s) : s[i] = x

\* (mutation of addFrame: the invocation count is increased for a root
\* occurrence as well)
addFrame_CountsRoots(tree, frame, isLeaf, currentParent, value) ==
    LET id   == createNodeId(frame.functionName, frame.fileName, frame.line)
        nm0  == getOrCreateNode(tree.nodeMap, frame.functionName,
                                frame.fileName, frame.line)
        n0   == MapGet(nm0, id)
        n1   == [n0 EXCEPT !.totalTime = @ + value, !.samples = @ + 1,
                           !.invocations = @ + 1]
        n2   == IF isLeaf THEN [n1 EXCEPT !.selfTime = @ + value] ELSE n1
        nm2  == MapSet(nm0, id, n2)
    IN  IF currentParent # ""
        THEN LET p    == MapGet(nm2, currentParent)
                 link == ~SeqHas(p.children, id)
                 nm3  == IF link
                         THEN MapSet(nm2, currentParent,
                                     [p EXCEPT !.children = Append(@, id)])
                         ELSE nm2
                 c    == MapGet(nm3, id)
                 c1   == IF link THEN [c EXCEPT !.parent = currentParent] ELSE c
             IN  [nodeMap |-> MapSet(nm3, id, c1), roots |-> tree.roots]
        ELSE [nodeMap |-> nm2,
              roots   |-> IF ~SeqHas(tree.roots, id)
                          THEN Append(tree.roots, id) ELSE tree.roots]

\* One iteration of the loop of addStack over the reversed stack.  Nodes are
\* objects shared by reference; the model holds each once, in nodeMap, and
\* children / parent / roots refer to it by id.
addFrame(tree, frame, isLeaf, currentParent, value) ==
    LET id   == createNodeId(frame.functionName, frame.fileName, frame.line)
        nm0  == getOrCreateNode(tree.nodeMap, frame.functionName,
                                frame.fileName, frame.line)
        n0   == MapGet(nm0, id)
        n1   == [n0 EXCEPT !.totalTime = @ + value, !.samples = @ + 1]
        n2   == IF isLeaf THEN [n1 EXCEPT !.selfTime = @ + value] ELSE n1
        nm2  == MapSet(nm0, id, n2)
    IN  IF currentParent # ""
        THEN LET p    == MapGet(nm2, currentParent)
                 link == ~SeqHas(p.children, id)
                 nm3  == IF link
                         THEN MapSet(nm2, currentParent,
                                     [p EXCEPT !.children = Append(@, id)])
                         ELSE nm2
                 c    == MapGet(nm3, id)
                 c1   == IF link THEN [c EXCEPT !.parent = currentParent] ELSE c
                 c2   == [c1 EXCEPT !.invocations = @ + 1]
             IN  [nodeMap |-> MapSet(nm3, id, c2), roots |-> tree.roots]
        ELSE [nodeMap |-> nm2,
              roots   |-> IF ~SeqHas(tree.roots, id)
                          THEN Append(tree.roots, id) ELSE tree.roots]

RECURSIVE addFrames(_, _, _, _, _)
addFrames(tree, reversedStack, i, currentParent, value) ==
    IF i > Len(reversedStack) THEN tree
    ELSE LET frame == reversedStack[i]
             t1    == addFrame(tree, frame, i = Len(reversedStack),
                               currentParent, value)
         IN  addFrames(t1, reversedStack, i + 1,
                       createNodeId(frame.functionName, frame.fileName, frame.line),
                       value)

\* CallTreeBuilder.addStack
addStack(tree, stack, value) ==
    IF Len(stack) = 0 THEN tree
    ELSE addFrames(tree, Reverse(stack), 1, "", value)

(***************************************************************************)
(* Numbers the finalization pass divides: exact rationals [n, d], d >= 0.  *)
(* d = 0 stands for IEEE NaN (n = 0), +Infinity (n > 0), -Infinity (n < 0).*)
(* Rounding of finite doubles is not modelled.                             *)
(***************************************************************************)
RECURSIVE GCD(_, _)
GCD(a, b) ==
    IF b = 0 THEN a ELSE GCD(b, a % b)

Abs(x) ==
    IF x < 0 THEN -x ELSE x

Sign(x) ==
    IF x < 0 THEN -1 ELSE IF x > 0 THEN 1 ELSE 0

Rat(n, d) ==
    IF d = 0 THEN [n |-> Sign(n), d |-> 0]
    ELSE LET g == GCD(Abs(n), Abs(d))
         IN  [n |-> Sign(d) * (n \div g), d |-> Abs(d) \div g]

R(n) ==
    [n |-> n, d |-> 1]

IsNaN(x) ==
    x.d = 0 /\ x.n = 0

\* x / y
RatDiv(x, y) ==
    IF IsNaN(x) \/ IsNaN(y) THEN Rat(0, 0)
    ELSE IF x.d = 0 THEN (IF y.d = 0 THEN Rat(0, 0)
                          ELSE Rat(x.n * (IF y.n < 0 THEN -1 ELSE 1), 0))
    ELSE IF y.d = 0 THEN R(0)
    ELSE Rat(x.n * y.d, x.d * y.n)

\* x * y
RatMul(x, y) ==
    IF IsNaN(x) \/ IsNaN(y) THEN Rat(0, 0)
    ELSE IF x.d = 0 \/ y.d = 0 THEN Rat(Sign(x.n) * Sign(y.n), 0)
    ELSE Rat(x.n * y.n, x.d * y.d)

\* x + y
RatAdd(x, y) ==
    IF IsNaN(x) \/ IsNaN(y) THEN Rat(0, 0)
    ELSE IF x.d = 0 /\ y.d = 0 THEN (IF x.n = y.n THEN x ELSE Rat(0, 0))
    ELSE IF x.d = 0 THEN x
    ELSE IF y.d = 0 THEN y
    ELSE Rat(x.n * y.d + y.n * x.d, x.d * y.d)

\* sign of (b - a) as a sort comparator sees it; NaN counts as 0
CompareDesc(a, b) ==
    LET diff == RatAdd(b, [n |-> -a.n, d |-> a.d])
    IN  IF IsNaN(diff) THEN 0 ELSE Sign(diff.n)

\* Math.round on a finite rational: floor(x + 1/2)
MathRound(x) ==
    (2 * x.n + x.d) \div (2 * x.d)

(***************************************************************************)
(* PprofParser.parseProtobuf                                               *)
(***************************************************************************)
RECURSIVE BuildIdMap(_, _, _)
BuildIdMap(entities, i, m) ==
    IF i > Len(entities) THEN m
    ELSE BuildIdMap(entities, i + 1,
                    MapSet(m, NumberOfBigInt(entities[i].id), entities[i]))

\* functionMap.set(Number(func.id), func) for every function
functionMap ==
    BuildIdMap(Functions, 1, << >>)

\* locationMap.set(Number(loc.id), loc) for every location
locationMap ==
    BuildIdMap(Locations, 1, << >>)

OrUnknown(str) ==
    IF str = "" THEN "unknown" ELSE str

\* Number(sample.value[0] || 0n)
SampleValueOf(sample) ==
    IF Len(sample.value) = 0 THEN 0 ELSE sample.value[1]

\* (mutation of StackFrame: the sample line goes into the call tree)
StackFrame_SampleLine(functionName, fileName, sampleLine, functionStartLine) ==
    [functionName |-> functionName, fileName |-> fileName,
     line |-> sampleLine]

\* The frame pushed on the call-tree stack for one Line of a Location.
StackFrame(functionName, fileName, sampleLine, functionStartLine) ==
    [functionName |-> functionName, fileName |-> fileName,
     line |-> functionStartLine]

\* The key and the location under which one Line is aggregated for heat maps.
MetricsLocation(functionName, fileName, sampleLine, functionStartLine) ==
    [line |-> sampleLine, functionName |-> functionName, fileName |-> fileName]

MetricsKey(loc) ==
    loc.fileName \o ":" \o ToString(loc.line)

\* Body of `for (const line of location.line)` for one line entry; acc is
\* [stack, lmm] (the sample's stack so far and locationMetricsMap).
processLine(acc, line, sampleValue) ==
    IF ~MapHas(functionMap, NumberOfBigInt(line.functionId)) THEN acc
    ELSE LET func         == MapGet(functionMap, NumberOfBigInt(line.functionId))
             fileName     == OrUnknown(StringAt(func.filename))
             functionName == OrUnknown(StringAt(func.name))
             sampleLine   == line.line
             startLine    == func.startLine
             frame == StackFrame(functionName, fileName, sampleLine, startLine)
             loc   == MetricsLocation(functionName, fileName, sampleLine, startLine)
             key   == MetricsKey(loc)
             lmm0  == IF ~MapHas(acc.lmm, key)
                      THEN MapSet(acc.lmm, key,
                                  [location |-> loc, selfTime |-> R(0),
                                   totalTime |-> R(0), selfPercent |-> R(0),
                                   totalPercent |-> R(0), samples |-> 0])
                      ELSE acc.lmm
             m     == MapGet(lmm0, key)
             m1    == [m EXCEPT !.samples = @ + sampleValue,
                                !.totalTime = RatAdd(@, R(sampleValue))]
         IN  [stack |-> Append(acc.stack, frame), lmm |-> MapSet(lmm0, key, m1)]

RECURSIVE processLines(_, _, _, _)
processLines(acc, lines, j, sampleValue) ==
    IF j > Len(lines) THEN acc
    ELSE processLines(processLine(acc, lines[j], sampleValue), lines, j + 1,
                      sampleValue)

\* Whether the loop over sample.locationId skips this id as already seen.
AlreadyProcessed(processedLocations, locationIdNum) ==
    locationIdNum \in processedLocations

\* (mutation of processLocations: an unresolvable location ends the stack)
RECURSIVE processLocations_Break(_, _, _, _, _)
processLocations_Break(acc, locationIds, i, processedLocations, sampleValue) ==
    IF i > Len(locationIds) THEN acc
    ELSE LET locationIdNum == NumberOfBigInt(locationIds[i])
             seen == processedLocations \cup {locationIdNum}
         IN  IF AlreadyProcessed(processedLocations, locationIdNum)
             THEN processLocations_Break(acc, locationIds, i + 1,
                                         processedLocations, sampleValue)
             ELSE IF ~MapHas(locationMap, locationIdNum)
                     \/ Len(MapGet(locationMap, locationIdNum).line) = 0
             THEN acc
             ELSE processLocations_Break(
                      processLines(acc, MapGet(locationMap, locationIdNum).line,
                                   1, sampleValue),
                      locationIds, i + 1, seen, sampleValue)

RECURSIVE processLocations(_, _, _, _, _)
processLocations(acc, locationIds, i, processedLocations, sampleValue) ==
    IF i > Len(locationIds) THEN acc
    ELSE LET locationIdNum == NumberOfBigInt(locationIds[i])
             seen == processedLocations \cup {locationIdNum}
         IN  IF AlreadyProcessed(processedLocations, locationIdNum)
             THEN processLocations(acc, locationIds, i + 1, processedLocations,
                                   sampleValue)
             ELSE IF ~MapHas(locationMap, locationIdNum)
                     \/ Len(MapGet(locationMap, locationIdNum).line) = 0
             THEN processLocations(acc, locationIds, i + 1, seen, sampleValue)
             ELSE processLocations(
                      processLines(acc, MapGet(locationMap, locationIdNum).line,
                                   1, sampleValue),
                      locationIds, i + 1, seen, sampleValue)

\* The call-tree stack parseProtobuf builds for one sample, and the map after.
SampleStack(lmm, sample) ==
    processLocations([stack |-> << >>, lmm |-> lmm], sample.locationId, 1, {},
                     SampleValueOf(sample))

\* Array.prototype.sort with the comparator (a, b) => b.key - a.key: stable,
\* descending by key.  keys[i] is the key of items[i].
SortDescBy(items, keys) ==
    LET n == Len(items)
        Before(j, i) == \/ CompareDesc(keys[j], keys[i]) < 0
                        \/ CompareDesc(keys[j], keys[i]) = 0 /\ j < i
        rank(i) == 1 + Cardinality({j \in 1..n : j # i /\ Before(j, i)})
    IN  [r \in 1..n |-> items[CHOOSE i \in 1..n : rank(i) = r]]

\* The profile's header fields parseProtobuf reads besides the tables.
Headers ==
    { [sampleType |-> << [type |-> 1, unit |-> 2] >>, durationNanos |-> 0,  period |-> 10],
      [sampleType |-> << [type |-> 1, unit |-> 3] >>, durationNanos |-> 50, period |-> 10],
      [sampleType |-> << [type |-> 1, unit |-> 3] >>, durationNanos |-> 0,  period |-> 10],
      [sampleType |-> << [type |-> 0, unit |-> 3] >>, durationNanos |-> 0,  period |-> 0],
      [sampleType |-> << [type |-> 1, unit |-> 8] >>, durationNanos |-> 50, period |-> 10],
      [sampleType |-> << >>,                          durationNanos |-> 0,  period |-> 0] }

\* sampleUnit.toLowerCase().includes('nanosecond'), over the strings a
\* modelled string table holds
IsNanosecondUnit(unit) ==
    unit \in {"nanoseconds", "nanosecond", "Nanoseconds"}

sampleTypeNameOf(header) ==
    IF Len(header.sampleType) > 0
    THEN (LET str == StringAt(header.sampleType[1].type)
          IN  IF str = "" THEN "samples" ELSE str)
    ELSE "samples"

sampleUnitOf(header) ==
    IF Len(header.sampleType) > 0
    THEN (LET str == StringAt(header.sampleType[1].unit)
          IN  IF str = "" THEN "count" ELSE str)
    ELSE "count"

\* Number(pprofData.period) || 10000000
DefaultPeriod == 10000000

\* (mutation of PeriodOrDefault: the period as it is in the profile)
PeriodOrDefault_AsIs(header) ==
    header.period

PeriodOrDefault(header) ==
    IF header.period = 0 THEN DefaultPeriod ELSE header.period

\* Number(pprofData.period) || 100
DefaultSampleRate == 100

\* lines 331-350: [durationNs, actualTotalSamples]
ComputeDuration(header, total, nSamples) ==
    IF IsNanosecondUnit(sampleUnitOf(header))
    THEN [durationNs |-> total, actualTotalSamples |-> nSamples]
    ELSE [durationNs |-> IF header.durationNanos > 0
                         THEN header.durationNanos
                         ELSE total * PeriodOrDefault(header),
          actualTotalSamples |-> total]

\* lines 362-378, for one LocationMetrics
FinalizeMetrics(m, header, dur) ==
    IF IsNanosecondUnit(sampleUnitOf(header))
    THEN LET totalTime    == R(m.samples)
             totalPercent == RatMul(RatDiv(totalTime, R(dur.durationNs)), R(100))
         IN  [m EXCEPT !.totalTime = totalTime, !.totalPercent = totalPercent,
                       !.selfTime = totalTime, !.selfPercent = totalPercent,
                       !.samples = MathRound(RatDiv(totalTime,
                                                    R(PeriodOrDefault(header))))]
    ELSE LET totalPercent == RatMul(RatDiv(R(m.samples),
                                           R(dur.actualTotalSamples)), R(100))
             totalTime    == RatMul(RatDiv(totalPercent, R(100)), R(dur.durationNs))
         IN  [m EXCEPT !.totalPercent = totalPercent, !.totalTime = totalTime,
                       !.selfPercent = totalPercent, !.selfTime = totalTime]

FinalizeAllMetrics(lmm, header, dur) ==
    [i \in 1..Len(lmm) |->
        [key |-> lmm[i].key, value |-> FinalizeMetrics(lmm[i].value, header, dur)]]

\* lines 381-398: group the location metrics by file, keyed by location.line
RECURSIVE GroupByFile(_, _, _)
GroupByFile(lmm, i, fileMetricsMap) ==
    IF i > Len(lmm) THEN fileMetricsMap
    ELSE LET metrics  == lmm[i].value
             fileName == metrics.location.fileName
             fmm0 == IF ~MapHas(fileMetricsMap, fileName)
                     THEN MapSet(fileMetricsMap, fileName,
                                 [fileName |-> fileName, totalTime |-> R(0),
                                  totalPercent |-> R(0), lineMetrics |-> << >>,
                                  topFunctions |-> << >>])
                     ELSE fileMetricsMap
             fm   == MapGet(fmm0, fileName)
             fm1  == [fm EXCEPT
                        !.lineMetrics = MapSet(@, metrics.location.line, metrics),
                        !.totalTime = RatAdd(@, metrics.totalTime),
                        !.totalPercent = RatAdd(@, metrics.totalPercent)]
         IN  GroupByFile(lmm, i + 1, MapSet(fmm0, fileName, fm1))

\* lines 401-414
BuildTopFunctions(lmm) ==
    LET list == [i \in 1..Len(lmm) |->
                    LET metrics == lmm[i].value
                    IN  [name |-> metrics.location.functionName,
                         fileName |-> metrics.location.fileName,
                         startLine |-> metrics.location.line,
                         selfTime |-> metrics.selfTime,
                         totalTime |-> metrics.totalTime,
                         selfPercent |-> metrics.selfPercent,
                         totalPercent |-> metrics.totalPercent,
                         samples |-> metrics.samples]]
    IN  SortDescBy(list, [i \in 1..Len(list) |-> list[i].totalTime])

\* CallTreeBuilder.calculatePercentages
calculatePercentages(tree, totalDuration) ==
    LET nm == tree.nodeMap
        Percent(time) == RatMul(RatDiv(R(time), R(totalDuration)), R(100))
    IN  [nodeMap |->
            [i \in 1..Len(nm) |->
                [key |-> nm[i].key,
                 value |-> [nm[i].value EXCEPT
                               !.selfPercent = Percent(nm[i].value.selfTime),
                               !.totalPercent = Percent(nm[i].value.totalTime)]]],
         roots |-> tree.roots]

\* (mutation of SortIdsByTotalTime: the list is left in insertion order)
SortIdsByTotalTime_InsertionOrder(nodeMap, ids) ==
    ids

\* sort((a, b) => b.totalTime - a.totalTime) of a list of nodes
SortIdsByTotalTime(nodeMap, ids) ==
    SortDescBy(ids, [i \in 1..Len(ids) |-> R(MapGet(nodeMap, ids[i]).totalTime)])

\* CallTreeBuilder.sortChildren
sortChildren(tree) ==
    LET nm == tree.nodeMap
    IN  [nodeMap |->
            [i \in 1..Len(nm) |->
                [key |-> nm[i].key,
                 value |-> [nm[i].value EXCEPT
                               !.children = SortIdsByTotalTime(nm, nm[i].value.children)]]],
         roots |-> tree.roots]

\* CallTreeBuilder.getRoots (sorts this.roots in place)
getRoots(tree) ==
    [tree EXCEPT !.roots = SortIdsByTotalTime(tree.nodeMap, @)]

(***************************************************************************)
(* PprofParser.parseBuffer: the input buffer.  b0, b1 are its first two    *)
(* bytes; content says what the bytes are (after decompression when the    *)
(* buffer is gzip-framed): a well-formed profile.proto message, the text   *)
(* output of `go tool pprof -text` (its lines), or neither.  The message's *)
(* samples and header are the inputs of the later steps.                   *)
(***************************************************************************)
GzipMagic0 == 31    \* 0x1f
GzipMagic1 == 139   \* 0x8b
TagSampleType == 10 \* 0x0a: field 1, length-delimited
TagSample == 18     \* 0x12: field 2, length-delimited

\* First bytes of raw profile.proto messages: the tag of the field that
\* comes first (encodeTag: (fieldNumber << 3) | wireType).
RawFirstTags ==
    { 10, 18, 34, 42, 50, 72 }

TotalLine(n) ==
    [kind |-> "total", n |-> n, value |-> 0, unit |-> ""]

DurationLine(value, unit) ==
    [kind |-> "duration", n |-> 0, value |-> value, unit |-> unit]

\* Header lines of a text input as the two regular expressions see them.
TextInputs ==
    { << >>,
      << TotalLine(5) >>,
      << TotalLine(0) >>,
      << TotalLine(5), DurationLine(2, "s") >>,
      << DurationLine(3, "ms"), TotalLine(7) >>,
      << DurationLine(4, "ns") >>,
      << DurationLine(0, "s"), TotalLine(5), TotalLine(6) >> }

Buffers ==
    {[b0 |-> GzipMagic0, b1 |-> GzipMagic1, content |-> c, lines |-> << >>] :
        c \in {"pprof", "garbage"}}
    \cup {[b0 |-> t, b1 |-> 2, content |-> "pprof", lines |-> << >>] :
        t \in RawFirstTags}
    \cup {[b0 |-> t, b1 |-> 255, content |-> "garbage", lines |-> << >>] :
        t \in {10, 18, 0, 104}}
    \cup {[b0 |-> t, b1 |-> 111, content |-> "text", lines |-> l] :
        t \in {84, 10}, l \in TextInputs}

\* A JavaScript number too large for the model's integers: m * 10^e.
Sci(m, e) ==
    [m |-> m, e |-> e]

\* PprofParser.parseTextFormat: the header scan (lines 69-89) ...
RECURSIVE ScanHeader(_, _, _)
ScanHeader(lines, i, acc) ==
    IF i > Len(lines) THEN acc
    ELSE LET line == lines[i]
             acc1 == IF line.kind = "total"
                     THEN [acc EXCEPT !.totalSamples = line.n]
                     ELSE IF line.kind = "duration"
                     THEN [acc EXCEPT !.durationNs =
                              IF line.unit = "s" THEN Sci(line.value, 9)
                              ELSE IF line.unit = "ms" THEN Sci(line.value, 6)
                              ELSE Sci(line.value, 0)]
                     ELSE acc
         IN  ScanHeader(lines, i + 1, acc1)

\* ... and the ProfileData it returns (lines 93-102)
DefaultTextTotalSamples == 1000
DefaultTextDurationE9 == 10

parseTextFormat(lines) ==
    LET h == ScanHeader(lines, 1, [totalSamples |-> 0, durationNs |-> Sci(0, 0)])
    IN  [status |-> "ok", via |-> "text",
         totalSamples |-> IF h.totalSamples = 0 THEN DefaultTextTotalSamples
                          ELSE h.totalSamples,
         durationNs |-> IF h.durationNs.m = 0 THEN Sci(DefaultTextDurationE9, 9)
                        ELSE h.durationNs,
         sampleRate |-> 100, sampleType |-> "cpu",
         fileMetrics |-> << >>, topFunctions |-> << >>]

\* buffer.toString('utf-8').split('\n'), as far as parseTextFormat reads it: a
\* buffer that is not text has no line holding 'Total:' or 'Duration:'.
TextOf(buf) ==
    IF buf.content = "text" THEN buf.lines ELSE << >>

\* The branch parseBuffer takes (lines 37-52).
RouteOf(buf) ==
    IF buf.b0 = GzipMagic0 /\ buf.b1 = GzipMagic1 THEN "protobuf"
    ELSE IF buf.b0 = TagSampleType \/ buf.b0 = TagSample THEN "protobuf"
    ELSE "text"

Raised ==
    [status |-> "raised", via |-> "protobuf", totalSamples |-> 0, durationNs |-> 0,
     sampleRate |-> 0, sampleType |-> "", fileMetrics |-> << >>,
     topFunctions |-> << >>]

NoResult ==
    [status |-> "none", via |-> "", totalSamples |-> 0, durationNs |-> 0,
     sampleRate |-> 0, sampleType |-> "", fileMetrics |-> << >>,
     topFunctions |-> << >>]

NoHeader ==
    [sampleType |-> << >>, durationNanos |-> 0, period |-> 0]

VARIABLES
    pc,                 \* where parseBuffer is: start, samples, done
    buffer,             \* the argument of parseBuffer
    samples,            \* pprofData.sample, as far as the loop has consumed it
    header,             \* pprofData's header fields, once finalization read them
    totalSamples,       \* parseProtobuf: running sum of the first values
    locationMetricsMap, \* parseProtobuf: Map<string, LocationMetrics>
    callTree,           \* the CallTreeBuilder: [nodeMap, roots]
    result,             \* what parseBuffer returned, or that it raised
    wireFields,         \* pprofProtobuf: the fields the input was assembled from
    wireCut,            \* pprofProtobuf: how many bytes were cut off its end
    wireData,           \* pprofProtobuf: the buffer given to parseProtobuf
    wireOffset,         \* pprofProtobuf: parseProtobuf's offset
    wireProfile,        \* pprofProtobuf: parseProtobuf's profile
    wirePc,             \* pprofProtobuf: idle, loop, returned (raised: never set)
    varintValue,        \* round trip: the number given to encodeVarint
    varintBytes,        \* round trip: what encodeVarint returned
    varintRead,         \* round trip: what readVarint returned on those bytes
    varintPc,           \* round trip: idle, encode, decode, done
    pathPc,             \* findFileInWorkspace: idle, start, found, scoring, returned
    pathProfilePath,    \* findFileInWorkspace: argument profilePath
    pathFunctionName,   \* findFileInWorkspace: argument functionName ("" if absent)
    pathTopFunctions,   \* findFileInWorkspace: profile.topFunctions (file, name)
    pathExactExists,    \* findFileInWorkspace: whether stat(profilePath) succeeds
    pathHasWorkspace,   \* findFileInWorkspace: whether workspaceFolders is defined
    pathFiles,          \* findFileInWorkspace: files, in discovery order
    pathHints,          \* findFileInWorkspace: serviceHints
    pathIndex,          \* findFileInWorkspace: position of the scoring loop in files
    pathScores,         \* findFileInWorkspace: the score computed for each file so far
    pathBestMatch,      \* findFileInWorkspace: bestMatch (index into files, 0 = null)
    pathBestScore,      \* findFileInWorkspace: bestScore
    pathResult,         \* findFileInWorkspace: what it returned
    idPc,               \* lookup maps: idle, functions, locations, sample, line, done
    idFunctions,        \* lookup maps: pprofData.function
    idLocations,        \* lookup maps: pprofData.location
    idIndex,            \* lookup maps: position of the loop that fills a map
    idFunctionMap,      \* lookup maps: functionMap
    idLocationMap,      \* lookup maps: locationMap
    idLocationId,       \* lookup maps: the location id of the sample's frame
    idLocation,         \* lookup maps: locationMap.get(...) for that id
    idFunction,         \* lookup maps: functionMap.get(...) for the location's line
    fmPc,               \* getFileMetrics: idle, start, loop, returned
    fmFileName,         \* getFileMetrics: argument fileName
    fmKeys,             \* getFileMetrics: the keys of profile.fileMetrics, in order
    fmIndex,            \* getFileMetrics: position of the loop over the entries
    fmBestMatch,        \* getFileMetrics: bestMatch (index of its key, 0 = undefined)
    fmBestScore,        \* getFileMetrics: bestScore
    fmResult,           \* getFileMetrics: what it returned
    loadCommands,       \* extension: the 'load profile' commands invoked so far
    loadCurrentProfile, \* extension: currentProfile (0 = null, else a profile)
    loadDecorationProfile, \* DecorationProvider.currentProfile
    loadSidebarProfile, \* PerformanceBreakdownProvider.profile
    heatDecorations,    \* DecorationProvider.heatMapDecorations: Map<number, type>
    heatCreated,        \* how many heat-map decoration types were created (1..n)
    heatDisposed,       \* the decoration types on which dispose() was called
    heatUpdates,        \* how many updateDecorations calls have run
    heatPc,             \* DecorationProvider: idle, active, disposed
    heatLineMetrics     \* the lineMetrics of the last updateDecorations call

parserVars == << pc, buffer, samples, header, totalSamples, locationMetricsMap,
                 callTree, result >>

wireVars == << wireFields, wireCut, wireData, wireOffset, wireProfile, wirePc >>

varintVars == << varintValue, varintBytes, varintRead, varintPc >>

pathVars == << pathPc, pathProfilePath, pathFunctionName, pathTopFunctions,
               pathExactExists, pathHasWorkspace, pathFiles, pathHints,
               pathIndex, pathScores, pathBestMatch, pathBestScore, pathResult >>

idVars == << idPc, idFunctions, idLocations, idIndex, idFunctionMap,
             idLocationMap, idLocationId, idLocation, idFunction >>

fileVars == << fmPc, fmFileName, fmKeys, fmIndex, fmBestMatch, fmBestScore,
               fmResult >>

loadVars == << loadCommands, loadCurrentProfile, loadDecorationProfile,
               loadSidebarProfile >>

heatVars == << heatDecorations, heatCreated, heatDisposed, heatUpdates, heatPc,
               heatLineMetrics >>

vars == << parserVars, wireVars, varintVars, pathVars, idVars, fileVars,
           loadVars, heatVars >>

\* the state of a sub-model that a specification does not exercise
ParserIdle ==
    /\ pc = "idle"
    /\ buffer = [kind |-> "none"]
    /\ samples = << >>
    /\ header = [kind |-> "none"]
    /\ totalSamples = 0
    /\ locationMetricsMap = << >>
    /\ callTree = [nodeMap |-> << >>, roots |-> << >>]
    /\ result = [status |-> "none"]

WireIdle ==
    /\ wireFields = << >>
    /\ wireCut = 0
    /\ wireData = << >>
    /\ wireOffset = 0
    /\ wireProfile = [kind |-> "none"]
    /\ wirePc = "idle"

VarintIdle ==
    /\ varintValue = {}
    /\ varintBytes = << >>
    /\ varintRead = [err |-> FALSE]
    /\ varintPc = "idle"

PathIdle ==
    /\ pathPc = "idle"
    /\ pathProfilePath = << >>
    /\ pathFunctionName = << >>
    /\ pathTopFunctions = << >>
    /\ pathExactExists = FALSE
    /\ pathHasWorkspace = FALSE
    /\ pathFiles = << >>
    /\ pathHints = << >>
    /\ pathIndex = 0
    /\ pathScores = << >>
    /\ pathBestMatch = 0
    /\ pathBestScore = 0
    /\ pathResult = [kind |-> "none"]

IdIdle ==
    /\ idPc = "idle"
    /\ idFunctions = << >>
    /\ idLocations = << >>
    /\ idIndex = 0
    /\ idFunctionMap = << >>
    /\ idLocationMap = << >>
    /\ idLocationId = {}
    /\ idLocation = [found |-> FALSE]
    /\ idFunction = [found |-> FALSE]

FileIdle ==
    /\ fmPc = "idle"
    /\ fmFileName = << >>
    /\ fmKeys = << >>
    /\ fmIndex = 0
    /\ fmBestMatch = 0
    /\ fmBestScore = 0
    /\ fmResult = [kind |-> "none"]

LoadIdle ==
    /\ loadCommands = << >>
    /\ loadCurrentProfile = 0
    /\ loadDecorationProfile = 0
    /\ loadSidebarProfile = 0

HeatIdle ==
    /\ heatDecorations = << >>
    /\ heatCreated = 0
    /\ heatDisposed = {}
    /\ heatUpdates = 0
    /\ heatPc = "idle"
    /\ heatLineMetrics = << >>

Init ==
    /\ pc = "start"
    /\ buffer \in Buffers
    /\ samples = << >>
    /\ header = NoHeader
    /\ totalSamples = 0
    /\ locationMetricsMap = << >>
    /\ callTree = [nodeMap |-> << >>, roots |-> << >>]
    /\ result = NoResult
    /\ WireIdle
    /\ VarintIdle
    /\ PathIdle
    /\ IdIdle
    /\ FileIdle
    /\ LoadIdle
    /\ HeatIdle

\* parseBuffer takes the protobuf branch and fromBinary (after gunzip for a
\* gzip-framed buffer) decodes the message.
ParseBufferProtobuf ==
    /\ pc = "start"
    /\ RouteOf(buffer) = "protobuf"
    /\ buffer.content = "pprof"
    /\ pc' = "samples"
    /\ UNCHANGED << buffer, samples, header, totalSamples, locationMetricsMap,
                    callTree, result >>
    /\ UNCHANGED << wireVars, varintVars, pathVars, idVars, fileVars, loadVars,
                    heatVars >>

\* parseBuffer takes the protobuf branch and gunzip or fromBinary throws: the
\* rejection propagates out of parseBuffer.
ParseBufferProtobufFails ==
    /\ pc = "start"
    /\ RouteOf(buffer) = "protobuf"
    /\ buffer.content # "pprof"
    /\ pc' = "done"
    /\ result' = Raised
    /\ UNCHANGED << buffer, samples, header, totalSamples, locationMetricsMap,
                    callTree >>
    /\ UNCHANGED << wireVars, varintVars, pathVars, idVars, fileVars, loadVars,
                    heatVars >>

\* parseBuffer falls back to parseTextFormat.
ParseBufferText ==
    /\ pc = "start"
    /\ RouteOf(buffer) = "text"
    /\ pc' = "done"
    /\ result' = parseTextFormat(TextOf(buffer))
    /\ UNCHANGED << buffer, samples, header, totalSamples, locationMetricsMap,
                    callTree >>
    /\ UNCHANGED << wireVars, varintVars, pathVars, idVars, fileVars, loadVars,
                    heatVars >>

\* One iteration of `for (const sample of pprofData.sample)` (lines 245-328).
ProcessSample ==
    /\ pc = "samples"
    /\ Len(samples) < MaxSamples
    /\ \E sample \in Samples :
        LET sampleValue == SampleValueOf(sample)
            acc == SampleStack(locationMetricsMap, sample)
        IN  /\ samples' = Append(samples, sample)
            /\ totalSamples' = totalSamples + sampleValue
            /\ locationMetricsMap' = acc.lmm
            /\ callTree' = IF Len(acc.stack) > 0
                           THEN addStack(callTree, acc.stack, sampleValue)
                           ELSE callTree
    /\ UNCHANGED << pc, buffer, header, result >>
    /\ UNCHANGED << wireVars, varintVars, pathVars, idVars, fileVars, loadVars,
                    heatVars >>

\* The rest of parseProtobuf after the loop (lines 330-431).
Finalize ==
    /\ pc = "samples"
    /\ \E h \in Headers :
        LET dur == ComputeDuration(h, totalSamples, Len(samples))
            lmm == FinalizeAllMetrics(locationMetricsMap, h, dur)
        IN  /\ header' = h
            /\ locationMetricsMap' = lmm
            /\ callTree' = getRoots(sortChildren(
                               calculatePercentages(callTree, dur.durationNs)))
            /\ result' = [status |-> "ok", via |-> "protobuf",
                          totalSamples |-> dur.actualTotalSamples,
                          durationNs |-> dur.durationNs,
                          sampleRate |-> IF h.period = 0 THEN DefaultSampleRate
                                         ELSE h.period,
                          sampleType |-> sampleTypeNameOf(h),
                          fileMetrics |-> GroupByFile(lmm, 1, << >>),
                          topFunctions |-> BuildTopFunctions(lmm)]
    /\ pc' = "done"
    /\ UNCHANGED << buffer, samples, totalSamples >>
    /\ UNCHANGED << wireVars, varintVars, pathVars, idVars, fileVars, loadVars,
                    heatVars >>

Next ==
    \/ ParseBufferProtobuf
    \/ ParseBufferProtobufFails
    \/ ParseBufferText
    \/ ProcessSample
    \/ Finalize

Spec == Init /\ [][Next]_vars

(***************************************************************************)
(* Wire helpers of pprofProtobuf.ts.  A buffer is a sequence of bytes      *)
(* 0..255 indexed from 0.  JavaScript's bitwise operators work on 32-bit   *)
(* two's-complement integers: such an integer is the set of its set bits   *)
(* (positions 0..31, 31 being the sign), Int32Of gives its value.          *)
(***************************************************************************)
Int32Of(bits) ==
    IF 31 \in bits THEN NatOf(bits \ {31}) - (2^30) - (2^30) ELSE NatOf(bits)

\* x << shift on an int32: the count is taken modulo 32, bits shifted out are lost
ShiftLeft32(bits, shift) ==
    {i + (shift % 32) : i \in bits} \cap (0..31)

\* buffer[offset]; undefined outside the buffer, which the bitwise operators
\* read as 0
ByteAt(buf, offset) ==
    IF offset \in 0..(Len(buf) - 1) THEN buf[offset + 1] ELSE 0

\* Buffer.slice(start, end): negative indexes count from the end, both are
\* clamped to the buffer
ClampIndex(len, idx) ==
    IF idx < 0 THEN (IF len + idx < 0 THEN 0 ELSE len + idx)
    ELSE (IF idx > len THEN len ELSE idx)

Slice(buf, start, end) ==
    IF ClampIndex(Len(buf), end) > ClampIndex(Len(buf), start)
    THEN SubSeq(buf, ClampIndex(Len(buf), start) + 1, ClampIndex(Len(buf), end))
    ELSE << >>

Throw ==
    [err |-> TRUE]

\* const maxIterations = 10
maxIterations == 10

\* (mutation of VarintTooLong: the tenth byte is already one too many)
VarintTooLong_NineBytes(iterations) ==
    iterations >= 9

\* if (iterations >= maxIterations) throw
VarintTooLong(iterations) ==
    iterations >= maxIterations

\* value |= (byte & 0x7f) << shift
OrShifted(value, byte, shift) ==
    value \cup ShiftLeft32(BitsOf(byte) \cap (0..6), shift)

\* the while loop of readVarint: [value, offset, iterations] when it exits
RECURSIVE readVarintLoop(_, _, _, _, _)
readVarintLoop(buf, offset, value, shift, iterations) ==
    IF offset < Len(buf) /\ iterations < maxIterations
    THEN IF ByteAt(buf, offset) < 128
         THEN [value |-> OrShifted(value, ByteAt(buf, offset), shift),
               offset |-> offset + 1, iterations |-> iterations]
         ELSE readVarintLoop(buf, offset + 1,
                             OrShifted(value, ByteAt(buf, offset), shift),
                             shift + 7, iterations + 1)
    ELSE [value |-> value, offset |-> offset, iterations |-> iterations]

\* the end of readVarint, r being what the loop left
readVarintReturn(r) ==
    IF VarintTooLong(r.iterations) THEN Throw
    ELSE [err |-> FALSE, value |-> Int32Of(r.value), bits |-> r.value,
          newOffset |-> r.offset]

readVarint(buf, offset) ==
    readVarintReturn(readVarintLoop(buf, offset, {}, 0, 0))

\* readTag's return, v being what readVarint returned:
\* fieldNumber: value >>> 3, wireType: value & 0x7
readTagReturn(v) ==
    IF v.err THEN Throw
    ELSE [err |-> FALSE,
          fieldNumber |-> NatOf({i - 3 : i \in {j \in v.bits : j >= 3}}),
          wireType |-> NatOf(v.bits \cap (0..2)),
          newOffset |-> v.newOffset]

readTag(buf, offset) ==
    readTagReturn(readVarint(buf, offset))

\* readLengthDelimited's return, v being the length readVarint returned
readLengthDelimitedReturn(buf, v) ==
    IF v.err THEN Throw
    ELSE [err |-> FALSE,
          value |-> Slice(buf, v.newOffset, v.newOffset + v.value),
          newOffset |-> v.newOffset + v.value]

readLengthDelimited(buf, offset) ==
    readLengthDelimitedReturn(buf, readVarint(buf, offset))

\* `.newOffset` of what a reader returned
NewOffsetOf(r) ==
    IF r.err THEN Throw ELSE [err |-> FALSE, newOffset |-> r.newOffset]

\* (mutation of skipLengthDelimited: only the length prefix is skipped)
skipLengthDelimited_PrefixOnly(buf, offset) ==
    NewOffsetOf(readVarint(buf, offset))

\* case 2 of skipField: return readLengthDelimited(buffer, offset).newOffset
skipLengthDelimited(buf, offset) ==
    NewOffsetOf(readLengthDelimited(buf, offset))

\* the default case of skipField: try readVarint, catch: offset + 1
skipUnknownWireType(offset, v) ==
    [err |-> FALSE, newOffset |-> IF v.err THEN offset + 1 ELSE v.newOffset]

skipField(buf, offset, wireType) ==
    CASE wireType = 0 -> NewOffsetOf(readVarint(buf, offset))
      [] wireType = 1 -> [err |-> FALSE, newOffset |-> offset + 8]
      [] wireType = 2 -> skipLengthDelimited(buf, offset)
      [] wireType = 3 -> [err |-> FALSE, newOffset |-> offset]
      [] wireType = 4 -> [err |-> FALSE, newOffset |-> offset]
      [] wireType = 5 -> [err |-> FALSE, newOffset |-> offset + 4]
      [] OTHER -> skipUnknownWireType(offset, readVarint(buf, offset))

(***************************************************************************)
(* Message parsers of pprofProtobuf.ts.  Each returns Throw when a read    *)
(* inside it throws, else [err |-> FALSE, value |-> the entity].  The six  *)
(* parsers are one loop, parseMessage, over the fields of the message; one *)
(* field gives Throw or [err |-> FALSE, offset, res]: the offset after it  *)
(* and the entity so far.                                                  *)
(***************************************************************************)
\* the assignments of parseSampleType, parseMapping, parseLine, parseFunction
\* and of fields 1-3 of parseLocation
AssignScalar(kind, res, fieldNumber, value) ==
    CASE kind = "sampleType" ->
            (IF fieldNumber = 1 THEN [res EXCEPT !.type = value]
             ELSE IF fieldNumber = 2 THEN [res EXCEPT !.unit = value]
             ELSE res)
      [] kind = "line" ->
            (IF fieldNumber = 1 THEN [res EXCEPT !.functionId = value]
             ELSE IF fieldNumber = 2 THEN [res EXCEPT !.line = value]
             ELSE res)
      [] kind = "location" ->
            (CASE fieldNumber = 1 -> [res EXCEPT !.id = value]
               [] fieldNumber = 2 -> [res EXCEPT !.mappingId = value]
               [] fieldNumber = 3 -> [res EXCEPT !.address = value]
               [] OTHER -> res)
      [] kind = "mapping" ->
            (CASE fieldNumber = 1 -> [res EXCEPT !.id = value]
               [] fieldNumber = 2 -> [res EXCEPT !.memoryStart = value]
               [] fieldNumber = 3 -> [res EXCEPT !.memoryLimit = value]
               [] fieldNumber = 4 -> [res EXCEPT !.fileOffset = value]
               [] fieldNumber = 5 -> [res EXCEPT !.filename = value]
               [] fieldNumber = 6 -> [res EXCEPT !.buildId = value]
               [] OTHER -> res)
      [] kind = "function" ->
            (CASE fieldNumber = 1 -> [res EXCEPT !.id = value]
               [] fieldNumber = 2 -> [res EXCEPT !.name = value]
               [] fieldNumber = 3 -> [res EXCEPT !.systemName = value]
               [] fieldNumber = 4 -> [res EXCEPT !.filename = value]
               [] fieldNumber = 5 -> [res EXCEPT !.startLine = value]
               [] OTHER -> res)

\* a field whose value v was read by readVarint, whatever its wire type
scalarField(kind, tag, v, res) ==
    IF v.err THEN Throw
    ELSE [err |-> FALSE, offset |-> v.newOffset,
          res |-> AssignScalar(kind, res, tag.fieldNumber, v.value)]

\* offset = skipField(buffer, tagOffset, wireType), sk being what it returned
skippedField(res, sk) ==
    IF sk.err THEN Throw
    ELSE [err |-> FALSE, offset |-> sk.newOffset, res |-> res]

\* the loop over a packed repeated field: the values appended to list
RECURSIVE readPacked(_, _, _)

readPackedNext(packedData, list, v) ==
    IF v.err THEN Throw
    ELSE readPacked(packedData, v.newOffset, Append(list, v.value))

readPacked(packedData, packedOffset, list) ==
    IF packedOffset < Len(packedData)
    THEN readPackedNext(packedData, list, readVarint(packedData, packedOffset))
    ELSE [err |-> FALSE, value |-> list]

\* one repeated numeric field of a Sample: the list it leaves and the offset
\* after it; packed is what readPacked returned, v what readVarint returned
packedAt(newOffset, packed) ==
    IF packed.err THEN Throw
    ELSE [err |-> FALSE, value |-> packed.value, newOffset |-> newOffset]

packedField(list, ld) ==
    IF ld.err THEN Throw
    ELSE packedAt(ld.newOffset, readPacked(ld.value, 0, list))

unpackedField(list, v) ==
    IF v.err THEN Throw
    ELSE [err |-> FALSE, value |-> Append(list, v.value), newOffset |-> v.newOffset]

readRepeated(buf, tagOffset, wireType, list) ==
    IF wireType = 2 THEN packedField(list, readLengthDelimited(buf, tagOffset))
    ELSE unpackedField(list, readVarint(buf, tagOffset))

locationIdField(res, r) ==
    IF r.err THEN Throw
    ELSE [err |-> FALSE, offset |-> r.newOffset,
          res |-> [res EXCEPT !.locationId = r.value]]

valueField(res, r) ==
    IF r.err THEN Throw
    ELSE [err |-> FALSE, offset |-> r.newOffset,
          res |-> [res EXCEPT !.value = r.value]]

\* one iteration of parseSample's loop after its tag
sampleField(buf, tag, res) ==
    IF tag.fieldNumber = 1
    THEN locationIdField(res, readRepeated(buf, tag.newOffset, tag.wireType,
                                           res.locationId))
    ELSE IF tag.fieldNumber = 2
    THEN valueField(res, readRepeated(buf, tag.newOffset, tag.wireType, res.value))
    ELSE skippedField(res, skipField(buf, tag.newOffset, tag.wireType))

RECURSIVE parseMessage(_, _, _, _)

parseLine(buf) ==
    parseMessage("line", buf, 0, [functionId |-> 0, line |-> 0])

\* result.line.push(parseLine(value)); offset = newOffset
linePushed(res, newOffset, line) ==
    IF line.err THEN Throw
    ELSE [err |-> FALSE, offset |-> newOffset,
          res |-> [res EXCEPT !.line = Append(@, line.value)]]

lineField(res, ld) ==
    IF ld.err THEN Throw
    ELSE linePushed(res, ld.newOffset, parseLine(ld.value))

\* one iteration of parseLocation's loop after its tag
locationField(buf, tag, res) ==
    IF tag.fieldNumber \in {1, 2, 3}
    THEN scalarField("location", tag, readVarint(buf, tag.newOffset), res)
    ELSE IF tag.fieldNumber = 4
    THEN lineField(res, readLengthDelimited(buf, tag.newOffset))
    ELSE skippedField(res, skipField(buf, tag.newOffset, tag.wireType))

\* one iteration of a message parser's loop, tag being what readTag returned
messageField(kind, buf, tag, res) ==
    IF tag.err THEN Throw
    ELSE CASE kind = "sample" -> sampleField(buf, tag, res)
           [] kind = "location" -> locationField(buf, tag, res)
           [] OTHER -> scalarField(kind, tag, readVarint(buf, tag.newOffset), res)

\* the loop goes on after the field f
parseMessageNext(kind, buf, f) ==
    IF f.err THEN Throw
    ELSE parseMessage(kind, buf, f.offset, f.res)

\* while (offset < buffer.length) { ... } return result
parseMessage(kind, buf, offset, res) ==
    IF offset < Len(buf)
    THEN parseMessageNext(kind, buf, messageField(kind, buf, readTag(buf, offset), res))
    ELSE [err |-> FALSE, value |-> res]

parseSampleType(buf) ==
    parseMessage("sampleType", buf, 0, [type |-> 0, unit |-> 0])

parseSample(buf) ==
    parseMessage("sample", buf, 0,
                 [locationId |-> << >>, value |-> << >>, label |-> << >>])

parseMapping(buf) ==
    parseMessage("mapping", buf, 0,
                 [id |-> 0, memoryStart |-> 0, memoryLimit |-> 0,
                  fileOffset |-> 0, filename |-> 0, buildId |-> 0])

parseLocation(buf) ==
    parseMessage("location", buf, 0,
                 [id |-> 0, mappingId |-> 0, address |-> 0, line |-> << >>])

parseFunction(buf) ==
    parseMessage("function", buf, 0,
                 [id |-> 0, name |-> 0, systemName |-> 0, filename |-> 0,
                  startLine |-> 0])

(***************************************************************************)
(* parseProtobuf of pprofProtobuf.ts: the top-level field loop.  The body  *)
(* of a switch case gives Throw or [err |-> FALSE, offset, profile].       *)
(***************************************************************************)
EmptyProfile ==
    [sampleType |-> << >>, sample |-> << >>, mapping |-> << >>,
     location |-> << >>, function |-> << >>, stringTable |-> << >>,
     timeNanos |-> 0, durationNanos |-> 0, period |-> 0]

\* value.toString('utf-8'), as code points: a byte below 128 is its own code
\* point, any other byte of the modelled inputs (none starts a well-formed
\* multi-byte sequence) becomes U+FFFD
Utf8ToString(bytes) ==
    [i \in 1..Len(bytes) |-> IF bytes[i] < 128 THEN bytes[i] ELSE 65533]

\* which case of the switch a field number selects
FieldCase(fieldNumber) ==
    IF fieldNumber \in 1..5 THEN "message"
    ELSE IF fieldNumber = 6 THEN "string"
    ELSE IF fieldNumber \in {9, 10, 12} THEN "scalar"
    ELSE IF fieldNumber = 11 THEN "periodType"
    ELSE "unknown"

\* cases 1-5: the message parser of the field
parseNested(fieldNumber, buf) ==
    CASE fieldNumber = 1 -> parseSampleType(buf)
      [] fieldNumber = 2 -> parseSample(buf)
      [] fieldNumber = 3 -> parseMapping(buf)
      [] fieldNumber = 4 -> parseLocation(buf)
      [] fieldNumber = 5 -> parseFunction(buf)

\* cases 1-5: profile.<list>.push(m); offset = newOffset
pushMessage(fieldNumber, prof, newOffset, m) ==
    IF m.err THEN Throw
    ELSE [err |-> FALSE, offset |-> newOffset,
          profile |->
            CASE fieldNumber = 1 -> [prof EXCEPT !.sampleType = Append(@, m.value)]
              [] fieldNumber = 2 -> [prof EXCEPT !.sample = Append(@, m.value)]
              [] fieldNumber = 3 -> [prof EXCEPT !.mapping = Append(@, m.value)]
              [] fieldNumber = 4 -> [prof EXCEPT !.location = Append(@, m.value)]
              [] fieldNumber = 5 -> [prof EXCEPT !.function = Append(@, m.value)]]

parseMessageField(fieldNumber, prof, ld) ==
    IF ld.err THEN Throw
    ELSE pushMessage(fieldNumber, prof, ld.newOffset, parseNested(fieldNumber, ld.value))

\* case 6: profile.stringTable.push(value.toString('utf-8'))
pushString(prof, ld) ==
    IF ld.err THEN Throw
    ELSE [err |-> FALSE, offset |-> ld.newOffset,
          profile |-> [prof EXCEPT !.stringTable = Append(@, Utf8ToString(ld.value))]]

\* cases 9, 10, 12
setScalar(fieldNumber, prof, v) ==
    IF v.err THEN Throw
    ELSE [err |-> FALSE, offset |-> v.newOffset,
          profile |->
            CASE fieldNumber = 9 -> [prof EXCEPT !.timeNanos = v.value]
              [] fieldNumber = 10 -> [prof EXCEPT !.durationNanos = v.value]
              [] fieldNumber = 12 -> [prof EXCEPT !.period = v.value]]

\* case 11 and default: only the offset moves
movePast(prof, r) ==
    IF r.err THEN Throw
    ELSE [err |-> FALSE, offset |-> r.newOffset, profile |-> prof]

\* the body of the second try block (the switch on fieldNumber)
parseField(buf, offset, fieldNumber, wireType, prof) ==
    CASE FieldCase(fieldNumber) = "message" ->
            parseMessageField(fieldNumber, prof, readLengthDelimited(buf, offset))
      [] FieldCase(fieldNumber) = "string" ->
            pushString(prof, readLengthDelimited(buf, offset))
      [] FieldCase(fieldNumber) = "scalar" ->
            setScalar(fieldNumber, prof, readVarint(buf, offset))
      [] FieldCase(fieldNumber) = "periodType" ->
            movePast(prof, readLengthDelimited(buf, offset))
      [] OTHER ->
            movePast(prof, skipField(buf, offset, wireType))

\* One iteration of `while (offset < buffer.length)`: how it ends (kind) and
\* the offset and profile it leaves.
\*   end             the loop condition is false
\*   tagError        readTag threw: break
\*   invalidWireType wire type above 5: offset = newOffset + 1, continue
\*   message, string, scalar, periodType, unknown
\*                   the switch case ran without throwing
\*   skipped         the case threw and skipField moved past the field
\*   abort           the case threw and skipField threw: break

\* the catch block, sk being what skipField returned
afterCatch(prof, tag, sk) ==
    IF sk.err
    THEN [kind |-> "abort", offset |-> tag.newOffset, profile |-> prof]
    ELSE [kind |-> "skipped", offset |-> sk.newOffset, profile |-> prof]

\* after the switch, r being what its case gave
afterSwitch(buf, prof, tag, r) ==
    IF ~r.err
    THEN [kind |-> FieldCase(tag.fieldNumber), offset |-> r.offset,
          profile |-> r.profile]
    ELSE afterCatch(prof, tag, skipField(buf, tag.newOffset, tag.wireType))

\* after the first try block, tag being what readTag returned
afterTag(buf, offset, prof, tag) ==
    IF tag.err
    THEN [kind |-> "tagError", offset |-> offset, profile |-> prof]
    ELSE IF tag.wireType > 5
    THEN [kind |-> "invalidWireType", offset |-> tag.newOffset + 1, profile |-> prof]
    ELSE afterSwitch(buf, prof, tag,
                     parseField(buf, tag.newOffset, tag.fieldNumber, tag.wireType, prof))

loopIteration(buf, offset, prof) ==
    IF ~(offset < Len(buf))
    THEN [kind |-> "end", offset |-> offset, profile |-> prof]
    ELSE afterTag(buf, offset, prof, readTag(buf, offset))

\* parseProtobuf as a function of the buffer: the profile it returns
RECURSIVE parseProtobufFrom(_, _, _)

parseProtobufNext(buf, it) ==
    IF it.kind \in {"end", "tagError", "abort"} THEN it.profile
    ELSE parseProtobufFrom(buf, it.offset, it.profile)

parseProtobufFrom(buf, offset, prof) ==
    parseProtobufNext(buf, loopIteration(buf, offset, prof))

parseProtobuf(buf) ==
    parseProtobufFrom(buf, 0, EmptyProfile)

(***************************************************************************)
(* SpecWire: parseProtobuf of pprofProtobuf.ts runs on a buffer assembled  *)
(* from top-level fields, with up to MaxCut bytes cut off its end.  Every  *)
(* field of the palette carries the bytes of the same field without its    *)
(* unknown parts (clean), and a class:                                     *)
(*   ok       a well-formed known field                                    *)
(*   unknown  well-formed, and it is or holds a field of unknown number    *)
(*   corrupt  a known message field whose payload makes its parser throw   *)
(*   fatal    bytes after which no field boundary can be found             *)
(*   odd      a tag with wire type 3 or 6                                  *)
(*   backward a length-delimited field whose length reads as -6, the       *)
(*            number of bytes of its tag and length                        *)
(***************************************************************************)
MaxFields == 1

MaxCut == 2

\* n bytes 0xFF: a varint that never ends
FF(n) ==
    [i \in 1..n |-> 255]

Known(name, bytes) ==
    [name |-> name, class |-> "ok", bytes |-> bytes, clean |-> bytes]

Variant(name, class, bytes, clean) ==
    [name |-> name, class |-> class, bytes |-> bytes, clean |-> clean]

FieldPalette ==
    { Known("sampleType", << 10, 4, 8, 1, 16, 2 >>),
      Known("sample", << 18, 7, 10, 2, 1, 2, 18, 1, 5 >>),
      Known("sampleUnpacked", << 18, 4, 8, 3, 16, 5 >>),
      Known("mapping", << 26, 4, 8, 1, 40, 6 >>),
      Known("location", << 34, 8, 8, 1, 34, 4, 8, 1, 16, 12 >>),
      Known("function", << 42, 8, 8, 1, 16, 4, 32, 6, 40, 10 >>),
      Known("string", << 50, 1, 97 >>),
      Known("durationNanos", << 80, 10 >>),
      Known("periodType", << 90, 2, 8, 1 >>),
      Known("period", << 96, 128, 1 >>),
      Variant("unknownVarint", "unknown", << 104, 5 >>, << >>),
      Variant("unknownBytes", "unknown", << 114, 2, 8, 7 >>, << >>),
      Variant("unknownFixed64", "unknown", << 121, 1, 2, 3, 4, 5, 6, 7, 8 >>, << >>),
      Variant("unknownFixed32", "unknown", << 125, 1, 2, 3, 4 >>, << >>),
      Variant("functionUnknownVarint", "unknown",
              << 42, 6, 8, 1, 120, 5, 40, 10 >>, << 42, 4, 8, 1, 40, 10 >>),
      Variant("functionUnknownBytes", "unknown",
              << 42, 8, 8, 1, 122, 2, 8, 7, 40, 10 >>, << 42, 4, 8, 1, 40, 10 >>),
      Variant("sampleTypeUnknownFixed64", "unknown",
              << 10, 13, 8, 1, 121, 16, 9, 0, 0, 0, 0, 0, 0, 16, 2 >>,
              << 10, 4, 8, 1, 16, 2 >>),
      Variant("sampleUnknownBytes", "unknown",
              << 18, 10, 10, 1, 1, 122, 2, 8, 7, 18, 1, 5 >>,
              << 18, 6, 10, 1, 1, 18, 1, 5 >>),
      Variant("locationUnknownFixed32", "unknown",
              << 34, 13, 8, 1, 125, 1, 2, 3, 4, 34, 4, 8, 1, 16, 12 >>,
              << 34, 8, 8, 1, 34, 4, 8, 1, 16, 12 >>),
      Variant("lineUnknownBytes", "unknown",
              << 34, 12, 8, 1, 34, 8, 8, 1, 16, 12, 122, 2, 16, 99 >>,
              << 34, 8, 8, 1, 34, 4, 8, 1, 16, 12 >>),
      Variant("functionCorrupt", "corrupt", << 42, 11, 8 >> \o FF(10), << >>),
      Variant("sampleCorrupt", "corrupt", << 18, 12, 10, 10 >> \o FF(10), << >>),
      Variant("tagOverlong", "fatal", FF(10), << >>),
      Variant("lengthOverlong", "fatal", << 42 >> \o FF(10), << >>),
      Variant("wireType6", "odd", << 14, 0 >>, << >>),
      Variant("startGroup", "odd", << 107 >>, << >>),
      Variant("periodTypeLengthMinus6", "backward",
              << 90, 250, 255, 255, 255, 15 >>, << >>) }

FieldNames ==
    {f.name : f \in FieldPalette}

FieldNamed(name) ==
    CHOOSE f \in FieldPalette : f.name = name

\* the concatenation of the fields' bytes / of their clean bytes
RECURSIVE BytesOfFields(_)
BytesOfFields(names) ==
    IF names = << >> THEN << >>
    ELSE FieldNamed(Head(names)).bytes \o BytesOfFields(Tail(names))

RECURSIVE CleanOfFields(_)
CleanOfFields(names) ==
    IF names = << >> THEN << >>
    ELSE FieldNamed(Head(names)).clean \o CleanOfFields(Tail(names))

Truncate(bytes, n) ==
    SubSeq(bytes, 1, Len(bytes) - n)

\* every sequence of at most MaxFields fields, and every field between a
\* sample and a function
WireInputs ==
    UNION {[1..n -> FieldNames] : n \in 0..MaxFields}
    \cup {<< "sample", name, "function" >> : name \in FieldNames}

InitWire ==
    /\ ParserIdle
    /\ VarintIdle
    /\ PathIdle
    /\ IdIdle
    /\ FileIdle
    /\ LoadIdle
    /\ HeatIdle
    /\ wireFields \in WireInputs
    /\ wireCut \in 0..MaxCut
    /\ wireCut <= Len(BytesOfFields(wireFields))
    /\ wireData = Truncate(BytesOfFields(wireFields), wireCut)
    /\ wireOffset = 0
    /\ wireProfile = EmptyProfile
    /\ wirePc = "loop"

\* what the next iteration of the loop does
WireStep ==
    loopIteration(wireData, wireOffset, wireProfile)

\* the iteration it is of this kind, runs to its end, and the loop goes on
Continues(kind, it) ==
    /\ it.kind = kind
    /\ wireOffset' = it.offset
    /\ wireProfile' = it.profile

\* readTag throws: break, and `return profile`
ReadTagFails ==
    /\ wirePc = "loop"
    /\ WireStep.kind = "tagError"
    /\ wirePc' = "returned"
    /\ UNCHANGED << wireOffset, wireProfile, wireFields, wireCut, wireData,
                    parserVars, varintVars, pathVars, idVars, fileVars,
                    loadVars, heatVars >>

\* wire type 6 or 7: offset = newOffset + 1; continue
InvalidWireType ==
    /\ wirePc = "loop"
    /\ Continues("invalidWireType", WireStep)
    /\ UNCHANGED << wirePc, wireFields, wireCut, wireData, parserVars,
                    varintVars, pathVars, idVars, fileVars, loadVars,
                    heatVars >>

\* cases 1-5: a nested message is parsed and pushed
ParseMessageField ==
    /\ wirePc = "loop"
    /\ Continues("message", WireStep)
    /\ UNCHANGED << wirePc, wireFields, wireCut, wireData, parserVars,
                    varintVars, pathVars, idVars, fileVars, loadVars,
                    heatVars >>

\* case 6
ParseStringTable ==
    /\ wirePc = "loop"
    /\ Continues("string", WireStep)
    /\ UNCHANGED << wirePc, wireFields, wireCut, wireData, parserVars,
                    varintVars, pathVars, idVars, fileVars, loadVars,
                    heatVars >>

\* cases 9, 10, 12
ParseScalarField ==
    /\ wirePc = "loop"
    /\ Continues("scalar", WireStep)
    /\ UNCHANGED << wirePc, wireFields, wireCut, wireData, parserVars,
                    varintVars, pathVars, idVars, fileVars, loadVars,
                    heatVars >>

\* case 11
ParsePeriodType ==
    /\ wirePc = "loop"
    /\ Continues("periodType", WireStep)
    /\ UNCHANGED << wirePc, wireFields, wireCut, wireData, parserVars,
                    varintVars, pathVars, idVars, fileVars, loadVars,
                    heatVars >>

\* default: skipField
SkipUnknownField ==
    /\ wirePc = "loop"
    /\ Continues("unknown", WireStep)
    /\ UNCHANGED << wirePc, wireFields, wireCut, wireData, parserVars,
                    varintVars, pathVars, idVars, fileVars, loadVars,
                    heatVars >>

\* the case threw; the catch block skips the field by its wire type
SkipFailedField ==
    /\ wirePc = "loop"
    /\ Continues("skipped", WireStep)
    /\ UNCHANGED << wirePc, wireFields, wireCut, wireData, parserVars,
                    varintVars, pathVars, idVars, fileVars, loadVars,
                    heatVars >>

\* the case threw and skipField threw: break, and `return profile`
AbortParse ==
    /\ wirePc = "loop"
    /\ WireStep.kind = "abort"
    /\ wirePc' = "returned"
    /\ UNCHANGED << wireOffset, wireProfile, wireFields, wireCut, wireData,
                    parserVars, varintVars, pathVars, idVars, fileVars,
                    loadVars, heatVars >>

\* offset >= buffer.length: `return profile`
ReturnProfile ==
    /\ wirePc = "loop"
    /\ WireStep.kind = "end"
    /\ wirePc' = "returned"
    /\ UNCHANGED << wireOffset, wireProfile, wireFields, wireCut, wireData,
                    parserVars, varintVars, pathVars, idVars, fileVars,
                    loadVars, heatVars >>

NextWire ==
    \/ ReadTagFails
    \/ InvalidWireType
    \/ ParseMessageField
    \/ ParseStringTable
    \/ ParseScalarField
    \/ ParsePeriodType
    \/ SkipUnknownField
    \/ SkipFailedField
    \/ AbortParse
    \/ ReturnProfile

SpecWire == InitWire /\ [][NextWire]_vars

(***************************************************************************)
(* Properties of SpecWire                                                  *)
(***************************************************************************)
\* the input is assembled from fields of these classes only
OnlyFieldsOf(classes) ==
    \A i \in 1..Len(wireFields) : FieldNamed(wireFields[i]).class \in classes

LastField ==
    FieldNamed(wireFields[Len(wireFields)])

\* the buffer ends inside a varint: its last byte has the continuation bit
TruncatedMidVarint ==
    /\ wireCut > 0
    /\ Len(wireData) > 0
    /\ wireData[Len(wireData)] >= 128

\* the buffer ends inside the payload of its last field, a length-delimited
\* one whose tag and length are whole: the length exceeds the bytes left
TruncatedMidLengthDelimited ==
    /\ wireCut > 0
    /\ Len(wireFields) > 0
    /\ LastField.bytes[1] % 8 = 2
    /\ Len(LastField.bytes) - wireCut >= 2
    /\ LastField.bytes[2] > Len(LastField.bytes) - wireCut - 2

\* C5: decoding a buffer truncated in the middle of a varint or of a
\* length-delimited field ends in a reported error: no profile, holding a
\* value or an entity built from the partial bytes, is returned.
C5_TruncatedInputIsError ==
    (/\ wirePc \notin {"idle", "loop"}
     /\ OnlyFieldsOf({"ok"})
     /\ TruncatedMidVarint \/ TruncatedMidLengthDelimited)
        => wirePc = "raised"

\* C8: when the next field boundary cannot be determined (readTag fails on a
\* top-level tag, or a failed field cannot be skipped), decoding ends in a
\* fatal error given to the caller, not in a returned profile.
C8_LostBoundaryIsFatal ==
    [][(wirePc = "loop" /\ WireStep.kind \in {"tagError", "abort"})
           => wirePc' = "raised"]_vars

\* C9: at every nesting level a field of unknown number is skipped by the
\* length its wire type implies and its payload is not interpreted: the
\* profile decoded from well-formed fields carrying unknown fields is the
\* profile decoded from the same fields without them.
C9_UnknownFieldsSkippedAtEveryLevel ==
    (wirePc = "returned" /\ wireCut = 0 /\ OnlyFieldsOf({"ok", "unknown"}))
        => wireProfile = parseProtobuf(CleanOfFields(wireFields))

\* the first k fields of the input
FirstFields(k) ==
    SubSeq(wireFields, 1, k)

\* C10: a known top-level field that fails to parse as its nested structure
\* adds no entity, the cursor moves past that field and decoding goes on
\* with the next field: at every turn of the loop the cursor is at the end of
\* some field and the profile holds exactly the entities of the well-formed
\* fields before it, and at the return every field has been passed.
C10_FailedFieldDroppedDecodingContinues ==
    (wirePc \in {"loop", "returned"} /\ wireCut = 0
     /\ OnlyFieldsOf({"ok", "corrupt"}))
        => \E k \in 0..Len(wireFields) :
              /\ wireOffset = Len(BytesOfFields(FirstFields(k)))
              /\ wireProfile = parseProtobuf(CleanOfFields(FirstFields(k)))
              /\ wirePc = "returned" => k = Len(wireFields)

\* a failing function field between a sample and a function has been passed
\* and the decoder returned: the sample and the function are in the profile
C10_Witness ==
    /\ wirePc = "returned"
    /\ wireCut = 0
    /\ wireFields = << "sample", "functionCorrupt", "function" >>
    /\ Len(wireProfile.sample) = 1
    /\ Len(wireProfile.function) = 1

(***************************************************************************)
(* encodeVarint of test-data/generateMockProfile.ts.  Its argument is a    *)
(* JavaScript number holding a non-negative integer, given as the set of   *)
(* its set bits; `&` and `>>>` first reduce it to its low 32 bits.         *)
\* the iteration that runs next ends the loop
EndsLoop(it) ==
    it.kind \in {"end", "tagError", "abort"}

\* C22: every iteration of the top-level field loop either strictly
\* advances its cursor or ends the loop, so that decoding terminates on
\* every finite buffer.
C22_EveryIterationAdvancesOrEnds ==
    wirePc = "loop" =>
        \/ EndsLoop(WireStep)
        \/ WireStep.offset > wireOffset

\* (lemma) it does when no length reads as a negative number
EveryIterationAdvancesOrEnds_NoNegativeLength ==
    (/\ wirePc = "loop"
     /\ OnlyFieldsOf({"ok", "unknown", "corrupt", "fatal", "odd"}))
        => \/ EndsLoop(WireStep)
           \/ WireStep.offset > wireOffset

(***************************************************************************)
\* value >>> n: the low 32 bits, shifted right, zero-filled
ShiftRightUnsigned32(bits, n) ==
    {i - n : i \in {j \in bits \cap (0..31) : j >= n}}

RECURSIVE encodeVarintLoop(_, _)
encodeVarintLoop(value, bytes) ==
    IF \E i \in value : i >= 7
    THEN encodeVarintLoop(ShiftRightUnsigned32(value, 7),
                          Append(bytes, NatOf(value \cap (0..6)) + 128))
    ELSE Append(bytes, NatOf(value \cap (0..6)))

encodeVarint(value) ==
    encodeVarintLoop(value, << >>)

(***************************************************************************)
(* SpecVarint: one number is encoded by encodeVarint and the bytes are     *)
(* read back by readVarint.                                                *)
(***************************************************************************)
MaxSmallValue == 130

\* unsigned 64-bit integers a JavaScript number holds exactly: the small ones,
\* the powers of two, and 2^k - 1, 2^k + 1, 2^k + 2^(k-1) up to 53 bits
VarintValues ==
    {BitsOf(n) : n \in 0..MaxSmallValue}
    \cup {{k} : k \in 0..63}
    \cup {0..k : k \in 0..52}
    \cup {{0, k} : k \in 1..52}
    \cup {{k - 1, k} : k \in 1..63}

\* the longest byte sequences handed to readVarint directly
MaxRawBytes == 12

\* byte sequences that were not produced by encodeVarint: a run of bytes with
\* the continuation bit set, then possibly a last byte without it, then
\* possibly one more byte
RawVarintInputs ==
    { [i \in 1..k |-> c] \o last \o rest :
        k \in 0..(MaxRawBytes - 2), c \in {128, 255},
        last \in { << >>, << 1 >>, << 127 >> }, rest \in { << >>, << 255 >> } }

InitVarint ==
    /\ ParserIdle
    /\ WireIdle
    /\ PathIdle
    /\ IdIdle
    /\ FileIdle
    /\ LoadIdle
    /\ HeatIdle
    /\ \/ /\ varintValue \in VarintValues
          /\ varintBytes = << >>
          /\ varintPc = "encode"
       \/ /\ varintValue = {}
          /\ varintBytes \in RawVarintInputs
          /\ varintPc = "raw"
    /\ varintRead = [err |-> FALSE]

VarintEncode ==
    /\ varintPc = "encode"
    /\ varintBytes' = encodeVarint(varintValue)
    /\ varintPc' = "decode"
    /\ UNCHANGED << varintValue, varintRead, parserVars, wireVars, pathVars, idVars,
                    fileVars, loadVars, heatVars >>

VarintDecode ==
    /\ varintPc = "decode"
    /\ varintRead' = readVarint(varintBytes, 0)
    /\ varintPc' = "done"
    /\ UNCHANGED << varintValue, varintBytes, parserVars, wireVars, pathVars, idVars,
                    fileVars, loadVars, heatVars >>

\* readVarint(buffer, 0) on a byte sequence given as it is
VarintReadRaw ==
    /\ varintPc = "raw"
    /\ varintRead' = readVarint(varintBytes, 0)
    /\ varintPc' = "rawDone"
    /\ UNCHANGED << varintValue, varintBytes, parserVars, wireVars, pathVars,
                    idVars, fileVars, loadVars, heatVars >>

NextVarint ==
    \/ VarintEncode
    \/ VarintDecode
    \/ VarintReadRaw

SpecVarint == InitVarint /\ [][NextVarint]_vars

\* C4: varint round trip: for every unsigned 64-bit integer v, reading the
\* encoding of v with readVarint returns exactly v, with the cursor just past
\* the last encoded byte.
C4_VarintRoundTrip ==
    varintPc = "done"
        => /\ ~varintRead.err
           /\ varintRead.value >= 0
           /\ BitsOf(varintRead.value) = varintValue
           /\ varintRead.newOffset = Len(varintBytes)

\* how many bytes at the start of the sequence have the continuation bit set
RECURSIVE LeadingContinuationBytes(_)
LeadingContinuationBytes(bytes) ==
    IF bytes # << >> /\ Head(bytes) >= 128
    THEN 1 + LeadingContinuationBytes(Tail(bytes))
    ELSE 0

\* C21: readVarint accepts every varint of at most 10 bytes (at most nine
\* bytes with the continuation bit, then one without), raises an error for
\* every byte sequence whose first 10 bytes all have the continuation bit
\* set, and never reads more than 10 bytes.
C21_VarintTenByteCap ==
    varintPc = "rawDone" =>
        /\ (/\ LeadingContinuationBytes(varintBytes) <= 9
            /\ LeadingContinuationBytes(varintBytes) < Len(varintBytes))
               => /\ ~varintRead.err
                  /\ varintRead.newOffset
                         = LeadingContinuationBytes(varintBytes) + 1
        /\ LeadingContinuationBytes(varintBytes) >= 10 => varintRead.err
        /\ readVarintLoop(varintBytes, 0, {}, 0, 0).offset <= 10

\* a varint of exactly 10 bytes, followed by one more byte, was read
C21_Witness ==
    /\ varintPc = "rawDone"
    /\ LeadingContinuationBytes(varintBytes) = 9
    /\ Len(varintBytes) = 11

(***************************************************************************)
(* Properties of Spec                                                      *)
(***************************************************************************)
Done ==
    pc = "done" /\ result.status = "ok" /\ result.via = "protobuf"

\* The frames of a sample that resolve, read off the tables directly: for each
\* location id of the stack with a Location, each of its Lines with a Function.
ResolvedFrames(sample) ==
    { [fileName |-> OrUnknown(StringAt(Functions[f].filename)),
       functionName |-> OrUnknown(StringAt(Functions[f].name)),
       sampleLine |-> Locations[l].line[j].line,
       startLine |-> Functions[f].startLine] :
        <<l, j, f>> \in
            { t \in (1..Len(Locations)) \X (1..2) \X (1..Len(Functions)) :
                /\ \E i \in 1..Len(sample.locationId) :
                       sample.locationId[i] = Locations[t[1]].id
                /\ t[2] <= Len(Locations[t[1]].line)
                /\ Locations[t[1]].line[t[2]].functionId = Functions[t[3]].id } }

AllResolvedFrames ==
    UNION { ResolvedFrames(samples[i]) : i \in 1..Len(samples) }

Nodes ==
    { callTree.nodeMap[i].value : i \in 1..Len(callTree.nodeMap) }

NodeAt(id) ==
    MapGet(callTree.nodeMap, id)

\* ids of the nodes reachable from the root list through children lists
RECURSIVE ReachableFrom(_)
ReachableFrom(ids) ==
    LET more == ids \cup UNION { {NodeAt(id).children[k] :
                                      k \in 1..Len(NodeAt(id).children)} : id \in ids }
    IN  IF more = ids THEN ids ELSE ReachableFrom(more)

TreeNodes ==
    { NodeAt(id) : id \in ReachableFrom({callTree.roots[i] : i \in 1..Len(callTree.roots)}) }

\* C1: for every resolved frame whose sample line differs from its function's
\* declaration line, the returned call tree has the frame's node with line =
\* Function.startLine and the line metrics of the function's file have the
\* frame's entry under Line.line; no tree node carries a line that is not the
\* declaration line of a frame with its file and name, and no line-metrics key
\* is anything but the sample line of a frame of that file.
C1_DeclarationLineInTree_SampleLineInMetrics ==
    Done =>
        LET frames == AllResolvedFrames
            tree   == TreeNodes
        IN  /\ \A fr \in frames :
                  fr.sampleLine # fr.startLine =>
                    /\ \E n \in tree :
                          /\ n.fileName = fr.fileName
                          /\ n.functionName = fr.functionName
                          /\ n.line = fr.startLine
                    /\ MapHas(result.fileMetrics, fr.fileName)
                    /\ LET lm == MapGet(result.fileMetrics, fr.fileName).lineMetrics
                       IN  /\ MapHas(lm, fr.sampleLine)
                           /\ MapGet(lm, fr.sampleLine).location.line = fr.sampleLine
                           /\ MapGet(lm, fr.sampleLine).location.fileName = fr.fileName
            /\ \A n \in Nodes :
                  \E fr \in frames :
                      /\ n.fileName = fr.fileName
                      /\ n.functionName = fr.functionName
                      /\ n.line = fr.startLine
            /\ \A i \in 1..Len(result.fileMetrics) :
                  \A key \in MapKeys(result.fileMetrics[i].value.lineMetrics) :
                      \E fr \in frames :
                          /\ fr.fileName = result.fileMetrics[i].key
                          /\ fr.sampleLine = key

\* A finished parse of a profile with a frame sampled away from its function's
\* declaration line, whose declaration line is no sample line of that file.
C1_Witness ==
    /\ Done
    /\ \E fr \in AllResolvedFrames :
          /\ fr.sampleLine # fr.startLine
          /\ \A other \in AllResolvedFrames :
                other.fileName = fr.fileName => other.sampleLine # fr.startLine

\* The identities (createNodeId) of the frames of a stack in stack order, every
\* occurrence kept, read off the tables directly.
IdentitiesOfLocation(locationId) ==
    LET ls == { l \in 1..Len(Locations) : Locations[l].id = locationId }
    IN  IF ls = {} THEN << >>
        ELSE LET lines == Locations[CHOOSE l \in ls : TRUE].line
                 ident(j) ==
                     LET fs == { f \in 1..Len(Functions) :
                                    Functions[f].id = lines[j].functionId }
                     IN  IF fs = {} THEN ""
                         ELSE LET func == Functions[CHOOSE f \in fs : TRUE]
                              IN  createNodeId(OrUnknown(StringAt(func.name)),
                                               OrUnknown(StringAt(func.filename)),
                                               func.startLine)
             IN  SelectSeq([j \in 1..Len(lines) |-> ident(j)],
                           LAMBDA x : x # "")

RECURSIVE FrameIdentities(_, _)
FrameIdentities(locationIds, i) ==
    IF i > Len(locationIds) THEN << >>
    ELSE IdentitiesOfLocation(locationIds[i]) \o FrameIdentities(locationIds, i + 1)

\* The functions a stack holds twice in a row (direct recursion).
DirectlyRecursive(sample) ==
    LET ids == FrameIdentities(sample.locationId, 1)
    IN  { ids[k] : k \in { k \in 1..Len(ids) : k < Len(ids) /\ ids[k] = ids[k + 1] } }

TotalTimeIn(tree, id) ==
    IF MapHas(tree.nodeMap, id) THEN MapGet(tree.nodeMap, id).totalTime ELSE 0

\* C2: processing a sample whose stack holds one function twice in a row
\* (through one repeated location id or through two location ids of the same
\* function) adds the sample's value to that function's node exactly once.
C2_DirectRecursionCountedOnce ==
    [][ \A s \in Samples :
          (pc = "samples" /\ pc' = "samples" /\ samples' = Append(samples, s)) =>
              \A id \in DirectlyRecursive(s) :
                  TotalTimeIn(callTree', id) = TotalTimeIn(callTree, id) + SampleValueOf(s)
      ]_vars

\* The children lists of the builder's nodes, as sets of node ids.
ChildrenOf(n) ==
    { n.children[k] : k \in 1..Len(n.children) }

\* C3: the tree is call-path sensitive: a frame identity that occurs under two
\* different parents is two node instances, so no node instance is in the
\* children list of two different nodes.
C3_CallPathSensitive ==
    \A p \in Nodes : \A q \in Nodes :
        p.id # q.id => ChildrenOf(p) \cap ChildrenOf(q) = {}

\* C6: parseBuffer accepts both input forms: a buffer framed by the gzip magic
\* and every valid raw pprof message, whichever top-level field comes first in
\* it (first byte 0x32 as much as 0x0A or 0x12), is decoded as pprof.
C6_EveryRawPprofDecodedAsPprof ==
    (pc = "done" /\ buffer.content = "pprof")
        => (result.status = "ok" /\ result.via = "protobuf")

\* C7: a buffer that cannot be decoded as a pprof profile is never reported as
\* a successful decode: whenever parseBuffer returns a ProfileData, the buffer
\* was decoded as pprof and the totals in it come from the input's samples,
\* not from substituted defaults.
C7_NoSuccessWithoutDecode ==
    (pc = "done" /\ result.status = "ok")
        => /\ buffer.content = "pprof"
           /\ result.via = "protobuf"
           /\ result.totalSamples =
                  ComputeDuration(header, totalSamples, Len(samples)).actualTotalSamples

\* the sum of all samples' first values, read off the samples
RECURSIVE SumOfFirstValues(_)
SumOfFirstValues(ss) ==
    IF ss = << >> THEN 0
    ELSE (IF Len(Head(ss).value) > 0 THEN Head(ss).value[1] ELSE 0)
         + SumOfFirstValues(Tail(ss))

\* the unit string of the first sample type, "" when there is none
FirstUnit ==
    IF Len(header.sampleType) > 0 THEN StringAt(header.sampleType[1].unit) ELSE ""

\* C11 as stated: durationNs is the sum of the first values when the unit of
\* the first sample type contains "nanosecond"; otherwise the duration field
\* when positive; otherwise the sum multiplied by the profile's period.
C11_DurationAsStated ==
    Done =>
        result.durationNs =
            IF FirstUnit \in {"nanosecond", "nanoseconds", "Nanoseconds"}
            THEN SumOfFirstValues(samples)
            ELSE IF header.durationNanos > 0 THEN header.durationNanos
            ELSE SumOfFirstValues(samples) * header.period

\* C11 amended: as stated, except that a period of zero (or an absent one) is
\* replaced by 10,000,000 in the estimate.
C11_DurationChosenOnce ==
    Done =>
        result.durationNs =
            IF FirstUnit \in {"nanosecond", "nanoseconds", "Nanoseconds"}
            THEN SumOfFirstValues(samples)
            ELSE IF header.durationNanos > 0 THEN header.durationNanos
            ELSE SumOfFirstValues(samples)
                 * (IF header.period = 0 THEN 10000000 ELSE header.period)

\* a count profile without duration and without period, with a positive sum,
\* has been finalized
C11_Witness ==
    /\ Done
    /\ FirstUnit = "count"
    /\ header.durationNanos = 0
    /\ header.period = 0
    /\ SumOfFirstValues(samples) > 0

\* Whether some frame of the sample cannot be resolved: its location id has no
\* Location, the Location has no Line, or a Line's function has no Function.
HasUnresolvableFrame(sample) ==
    \E i \in 1..Len(sample.locationId) :
        \/ \A l \in 1..Len(Locations) : Locations[l].id # sample.locationId[i]
        \/ \E l \in 1..Len(Locations) :
              /\ Locations[l].id = sample.locationId[i]
              /\ \/ Len(Locations[l].line) = 0
                 \/ \E j \in 1..Len(Locations[l].line) :
                       \A f \in 1..Len(Functions) :
                           Functions[f].id # Locations[l].line[j].functionId

\* C12: while samples are processed, the keys of the line-metrics map are
\* exactly the file:line keys of the frames that resolve and the call-tree
\* nodes are exactly the nodes of the frames that resolve: an unresolvable
\* frame contributes no entry and no node, and the resolvable frames of the
\* same stack are all aggregated.
C12_UnresolvableFramesDropped ==
    pc = "samples" =>
        /\ { locationMetricsMap[i].key : i \in 1..Len(locationMetricsMap) }
               = { fr.fileName \o ":" \o ToString(fr.sampleLine) :
                       fr \in AllResolvedFrames }
        /\ { callTree.nodeMap[i].key : i \in 1..Len(callTree.nodeMap) }
               = { fr.fileName \o ":" \o ToString(fr.startLine) \o ":"
                       \o fr.functionName : fr \in AllResolvedFrames }

\* a stack with a resolvable frame after two unresolvable ones was processed,
\* and one whose location has a Line without Function before a resolvable Line
C12_Witness ==
    /\ pc = "samples"
    /\ Len(samples) = 2
    /\ samples[1].locationId = LocationIds(<<7, 6, 1>>)
    /\ samples[2].locationId = LocationIds(<<11>>)
    /\ HasUnresolvableFrame(samples[1])
    /\ HasUnresolvableFrame(samples[2])
    /\ MapHas(locationMetricsMap, "x.go:12")
    /\ MapHas(locationMetricsMap, "x.go:26")

\* C13: after any sequence of addStack calls every node of the call tree has
\* totalTime >= selfTime.
C13_TotalTimeAtLeastSelfTime ==
    \A n \in Nodes : n.totalTime >= n.selfTime

\* The same for profiles whose sample values are all non-negative.
TotalTimeAtLeastSelfTime_NonNegativeValues ==
    (\A i \in 1..Len(samples) : SampleValueOf(samples[i]) >= 0)
        => \A n \in Nodes : n.totalTime >= n.selfTime

\* Sum over all files of FileMetrics.totalPercent.
RECURSIVE SumOfFileTotalPercent(_)
SumOfFileTotalPercent(fileMetricsMap) ==
    IF fileMetricsMap = << >> THEN R(0)
    ELSE RatAdd(Head(fileMetricsMap).value.totalPercent,
                SumOfFileTotalPercent(Tail(fileMetricsMap)))

\* Every sample of the profile has a positive value and only frames that
\* resolve.
EverySampleResolves ==
    /\ Len(samples) > 0
    /\ \A i \in 1..Len(samples) :
          /\ SampleValueOf(samples[i]) > 0
          /\ ~HasUnresolvableFrame(samples[i])

\* C14: for a profile in which every sample's locations and functions resolve,
\* the FileMetrics.totalPercent of all files add up to 100.
C14_FilePercentagesSumTo100 ==
    (Done /\ EverySampleResolves)
        => SumOfFileTotalPercent(result.fileMetrics) = R(100)

\* The same for profiles whose stacks have a single frame each.
FilePercentagesSumTo100_SingleFrameStacks ==
    (/\ Done
     /\ EverySampleResolves
     /\ \A i \in 1..Len(samples) :
           /\ Len(samples[i].locationId) = 1
           /\ \A l \in 1..Len(Locations) :
                 Locations[l].id = samples[i].locationId[1]
                     => Len(Locations[l].line) = 1)
        => SumOfFileTotalPercent(result.fileMetrics) = R(100)


\* The node ids of the frames of the stack parseProtobuf hands to addStack for
\* a sample, innermost frame first.
StackNodeIds(lmm, sample) ==
    [k \in 1..Len(SampleStack(lmm, sample).stack) |->
        createNodeId(SampleStack(lmm, sample).stack[k].functionName,
                     SampleStack(lmm, sample).stack[k].fileName,
                     SampleStack(lmm, sample).stack[k].line)]

SelfTimeIn(tree, id) ==
    IF MapHas(tree.nodeMap, id) THEN MapGet(tree.nodeMap, id).selfTime ELSE 0

\* What one addStack call does, from the tree before to the tree after, for
\* the stack with node ids ids (innermost first) and the value v.
AddStackEffect(before, after, ids, v) ==
    Len(ids) > 0 =>
        /\ SeqHas(after.roots, ids[Len(ids)])
        /\ \A k \in 1..(Len(ids) - 1) :
               SeqHas(MapGet(after.nodeMap, ids[k + 1]).children, ids[k])
        /\ \A k \in 1..Len(ids) :
               TotalTimeIn(after, ids[k]) = TotalTimeIn(before, ids[k]) + v
        /\ SelfTimeIn(after, ids[1]) = SelfTimeIn(before, ids[1]) + v
        /\ \A id \in MapKeys(after.nodeMap) :
               id # ids[1] => SelfTimeIn(after, id) = SelfTimeIn(before, id)

\* C18: one addStack call with value v puts the node of the outermost frame
\* in the root list, makes the node of every other frame a child of the node
\* of the frame that called it, adds v to totalTime of every node on the
\* stack, adds v to selfTime of the innermost frame's node and leaves selfTime
\* of every other node unchanged.
C18_AddStackEffect ==
    [][ \A s \in Samples :
          (pc = "samples" /\ pc' = "samples" /\ samples' = Append(samples, s)) =>
              AddStackEffect(callTree, callTree',
                             StackNodeIds(locationMetricsMap, s),
                             SampleValueOf(s))
      ]_vars

\* The same for stacks whose frames are all different nodes.
AddStackEffect_DistinctFrames ==
    [][ \A s \in Samples :
          (/\ pc = "samples" /\ pc' = "samples" /\ samples' = Append(samples, s)
           /\ \A a, b \in 1..Len(StackNodeIds(locationMetricsMap, s)) :
                  a # b => StackNodeIds(locationMetricsMap, s)[a]
                               # StackNodeIds(locationMetricsMap, s)[b]) =>
              AddStackEffect(callTree, callTree',
                             StackNodeIds(locationMetricsMap, s),
                             SampleValueOf(s))
      ]_vars

\* ids of the nodes reachable from the nodes ids by one or more steps
\* through children lists
DescendantsOf(ids) ==
    ReachableFrom(UNION { ChildrenOf(NodeAt(id)) : id \in ids })

\* C25: after any sequence of addStack calls the structure reachable from
\* the roots through children is a forest: no node is reachable from itself,
\* no node is in the children lists of two different nodes, and no node is
\* both a root and a child.
C25_CallTreeIsForest ==
    LET rootIds == {callTree.roots[i] : i \in 1..Len(callTree.roots)}
        reached == ReachableFrom(rootIds)
    IN  /\ \A id \in reached : id \notin DescendantsOf({id})
        /\ \A a, b \in reached :
               a # b => ChildrenOf(NodeAt(a)) \cap ChildrenOf(NodeAt(b)) = {}
        /\ \A id \in rootIds : id \notin DescendantsOf(reached)

\* a number that is neither NaN nor an infinity
IsDefinedNumber(x) ==
    x.d # 0

\* C26: every percentage of a returned profile is a defined number: the
\* selfPercent and totalPercent of every location's metrics, of every file
\* and of every call-tree node were computed with a non-zero divisor.
C26_PercentagesDefined ==
    (Done /\ result.status = "ok" /\ result.via = "protobuf") =>
        /\ \A i \in 1..Len(locationMetricsMap) :
               /\ IsDefinedNumber(locationMetricsMap[i].value.selfPercent)
               /\ IsDefinedNumber(locationMetricsMap[i].value.totalPercent)
        /\ \A i \in 1..Len(result.fileMetrics) :
               IsDefinedNumber(result.fileMetrics[i].value.totalPercent)
        /\ \A n \in Nodes :
               /\ IsDefinedNumber(n.selfPercent)
               /\ IsDefinedNumber(n.totalPercent)

\* (lemma) they are when the first values of the samples do not sum to zero
PercentagesDefined_NonZeroTotal ==
    SumOfFirstValues(samples) # 0 => C26_PercentagesDefined

\* the sum of the first values of the samples whose stack holds the node id
RECURSIVE ValuePassingThrough(_, _)
ValuePassingThrough(ss, id) ==
    IF ss = << >> THEN 0
    ELSE (IF SeqHas(StackNodeIds(<< >>, Head(ss)), id)
          THEN SampleValueOf(Head(ss)) ELSE 0)
         + ValuePassingThrough(Tail(ss), id)

\* no stack holds one node twice
NoRecursion ==
    \A i \in 1..Len(samples) :
        \A a, b \in 1..Len(StackNodeIds(<< >>, samples[i])) :
            a # b => StackNodeIds(<< >>, samples[i])[a]
                         # StackNodeIds(<< >>, samples[i])[b]

\* positive values, every frame resolves, no recursion, one outermost frame
SingleRootProfile ==
    /\ Done
    /\ EverySampleResolves
    /\ NoRecursion
    /\ Len(callTree.roots) = 1

\* C27: in a profile with positive sample values, no recursion, all frames
\* resolving and every stack under the same outermost frame, the single root
\* has totalPercent = 100 after finalization, whatever the unit and whether
\* or not the profile gives a duration; and every node's totalPercent is 100
\* times the share of the summed sample values whose stacks pass through it.
C27_TotalPercentIsShareOfValues ==
    SingleRootProfile =>
        /\ NodeAt(callTree.roots[1]).totalPercent = R(100)
        /\ \A n \in Nodes :
               n.totalPercent
                   = RatMul(RatDiv(R(ValuePassingThrough(samples, n.id)),
                                   R(SumOfFirstValues(samples))), R(100))

\* (lemma) it is so when the unit of the values is nanoseconds
TotalPercentIsShareOfValues_Nanoseconds ==
    IsNanosecondUnit(sampleUnitOf(header)) => C27_TotalPercentIsShareOfValues

\* C30: topFunctions of a returned profile is ordered by non-increasing
\* totalTime and holds function-level metrics: one entry per function, whose
\* startLine is the declaration line of the function (Function.startLine),
\* not a sample line, so that samples at different lines of one function
\* contribute to a single entry.
C30_TopFunctionsPerFunction ==
    Done =>
        /\ \A i, j \in 1..Len(result.topFunctions) :
               i < j => CompareDesc(result.topFunctions[i].totalTime,
                                    result.topFunctions[j].totalTime) <= 0
        /\ \A i, j \in 1..Len(result.topFunctions) :
               i # j => \/ result.topFunctions[i].name
                              # result.topFunctions[j].name
                        \/ result.topFunctions[i].fileName
                              # result.topFunctions[j].fileName
        /\ \A i \in 1..Len(result.topFunctions) :
               \E fr \in AllResolvedFrames :
                   /\ fr.functionName = result.topFunctions[i].name
                   /\ fr.fileName = result.topFunctions[i].fileName
                   /\ fr.startLine = result.topFunctions[i].startLine

\* (lemma) the order by non-increasing totalTime alone
TopFunctionsOrderedByTotalTime ==
    Done =>
        \A i, j \in 1..Len(result.topFunctions) :
            i < j => CompareDesc(result.topFunctions[i].totalTime,
                                 result.topFunctions[j].totalTime) <= 0

InvocationsIn(tree, id) ==
    IF MapHas(tree.nodeMap, id) THEN MapGet(tree.nodeMap, id).invocations ELSE 0

SamplesIn(tree, id) ==
    IF MapHas(tree.nodeMap, id) THEN MapGet(tree.nodeMap, id).samples ELSE 0

\* the positions from..to of the stack ids that hold the node id
OccurrencesOf(ids, id, from, to) ==
    Cardinality({k \in from..to : ids[k] = id})

\* C23: one addStack call increases a node's invocation count by one for
\* every occurrence of the node in the stack that is entered from a parent
\* frame (every frame but the outermost, ids being innermost first) and not
\* for its occurrence as the outermost frame; it increases the node's sample
\* count by one for every occurrence.
C23_InvocationsCountEntriesFromParent ==
    [][ \A s \in Samples :
          (pc = "samples" /\ pc' = "samples" /\ samples' = Append(samples, s)) =>
              \A id \in MapKeys(callTree'.nodeMap) :
                  /\ InvocationsIn(callTree', id)
                        = InvocationsIn(callTree, id)
                          + OccurrencesOf(StackNodeIds(locationMetricsMap, s), id, 1,
                                Len(StackNodeIds(locationMetricsMap, s)) - 1)
                  /\ SamplesIn(callTree', id)
                        = SamplesIn(callTree, id)
                          + OccurrencesOf(StackNodeIds(locationMetricsMap, s), id, 1,
                                Len(StackNodeIds(locationMetricsMap, s)))
      ]_vars

\* a root that was never entered from a parent, a node that was, and a node
\* that occurred more often than it was entered
C23_Witness ==
    /\ pc = "samples"
    /\ \E id \in MapKeys(callTree.nodeMap) :
           /\ SeqHas(callTree.roots, id)
           /\ SamplesIn(callTree, id) > 0
           /\ InvocationsIn(callTree, id) = 0
    /\ \E id \in MapKeys(callTree.nodeMap) :
           /\ InvocationsIn(callTree, id) > 0
           /\ SamplesIn(callTree, id) > InvocationsIn(callTree, id)

IsPrefixOf(a, b) ==
    Len(a) <= Len(b) /\ SubSeq(b, 1, Len(a)) = a

PositionIn(list, x) ==
    CHOOSE i \in 1..Len(list) : list[i] = x

\* after holds the nodes of before ordered by non-increasing totalTime, nodes
\* with equal totalTime in the order they have in before
OrderedByTotalTime(before, after, tree) ==
    /\ Len(after) = Len(before)
    /\ \A i \in 1..Len(before) : SeqHas(after, before[i])
    /\ \A i, j \in 1..Len(after) :
           i < j =>
               /\ TotalTimeIn(tree, after[i]) >= TotalTimeIn(tree, after[j])
               /\ TotalTimeIn(tree, after[i]) = TotalTimeIn(tree, after[j])
                      => PositionIn(before, after[i]) < PositionIn(before, after[j])

ChildrenIn(tree, id) ==
    IF MapHas(tree.nodeMap, id) THEN MapGet(tree.nodeMap, id).children ELSE << >>

\* C19: while samples are processed the root list and every children list
\* only grow at the end (they are in first-insertion order); the call tree
\* parseProtobuf returns has the root list and every children list ordered by
\* non-increasing totalTime, nodes with equal totalTime in first-insertion
\* order.
C19_SortedByTotalTimeStable ==
    [][ /\ (pc = "samples" /\ pc' = "samples") =>
              /\ IsPrefixOf(callTree.roots, callTree'.roots)
              /\ \A id \in MapKeys(callTree.nodeMap) :
                     IsPrefixOf(ChildrenIn(callTree, id), ChildrenIn(callTree', id))
        /\ (pc = "samples" /\ pc' = "done") =>
              /\ OrderedByTotalTime(callTree.roots, callTree'.roots, callTree')
              /\ MapKeys(callTree'.nodeMap) = MapKeys(callTree.nodeMap)
              /\ \A id \in MapKeys(callTree.nodeMap) :
                     OrderedByTotalTime(ChildrenIn(callTree, id),
                                        ChildrenIn(callTree', id), callTree')
      ]_vars

\* a tree was returned in which main.B of x.go has two children, the one
\* inserted first with the smaller totalTime
C19_Witness ==
    /\ Done
    /\ samples = << [locationId |-> LocationIds(<<1, 3>>), value |-> <<-5>>],
                    [locationId |-> LocationIds(<<10, 3>>), value |-> <<1>>] >>
    /\ Len(ChildrenIn(callTree, "x.go:20:main.B")) = 2
    /\ Len(callTree.roots) = 1

(***************************************************************************)
(* pathMapper.ts: findFileInWorkspace.  Strings are sequences of           *)
(* one-character strings, so that split, includes, toLowerCase and the     *)
(* regular expressions are computed on the characters.  path.sep is "/".   *)
(***************************************************************************)
UpperCaseLetters ==
    << "A", "B", "C", "D", "E", "F", "G", "H", "I", "J", "K", "L", "M",
       "N", "O", "P", "Q", "R", "S", "T", "U", "V", "W", "X", "Y", "Z" >>

LowerCaseLetters ==
    << "a", "b", "c", "d", "e", "f", "g", "h", "i", "j", "k", "l", "m",
       "n", "o", "p", "q", "r", "s", "t", "u", "v", "w", "x", "y", "z" >>

DecimalDigits ==
    << "0", "1", "2", "3", "4", "5", "6", "7", "8", "9" >>

RangeOf(seq) ==
    { seq[i] : i \in 1..Len(seq) }

\* String.prototype.toLowerCase
toLowerCaseChar(c) ==
    IF c \in RangeOf(UpperCaseLetters)
    THEN LowerCaseLetters[CHOOSE i \in 1..Len(UpperCaseLetters) :
                              UpperCaseLetters[i] = c]
    ELSE c

toLowerCase(str) ==
    [i \in 1..Len(str) |-> toLowerCaseChar(str[i])]

\* String.prototype.includes
includes(str, sub) ==
    \E i \in 0..(Len(str) - Len(sub)) : SubSeq(str, i + 1, i + Len(sub)) = sub

\* Array.prototype.includes
arrayIncludes(array, element) ==
    \E i \in 1..Len(array) : array[i] = element

\* String.prototype.split on a one-character separator
RECURSIVE splitFrom(_, _, _, _, _)
splitFrom(str, sep, i, current, parts) ==
    IF i > Len(str) THEN Append(parts, current)
    ELSE IF str[i] = sep
    THEN splitFrom(str, sep, i + 1, << >>, Append(parts, current))
    ELSE splitFrom(str, sep, i + 1, Append(current, str[i]), parts)

split(str, sep) ==
    splitFrom(str, sep, 1, << >>, << >>)

\* .filter((p) => p): the non-empty parts
filterNonEmpty(parts) ==
    SelectSeq(parts, LAMBDA part : part # << >>)

\* \w of a regular expression
IsWordChar(c) ==
    c \in RangeOf(UpperCaseLetters) \cup RangeOf(LowerCaseLetters)
            \cup RangeOf(DecimalDigits) \cup {"_"}

\* the last position of the run of word characters that starts at from
\* (from - 1 if str[from] is not a word character)
RECURSIVE WordRunEnd(_, _)
WordRunEnd(str, from) ==
    IF from <= Len(str) /\ IsWordChar(str[from])
    THEN WordRunEnd(str, from + 1)
    ELSE from - 1

\* where the capture group starts when the expression is tried at position i
GroupStart(str, i) ==
    IF i + 1 <= Len(str) /\ str[i + 1] = "*" THEN i + 2 ELSE i + 1

\* /\(\*?(\w+)\)\./ matches at position i
ReceiverMatchesAt(str, i) ==
    /\ str[i] = "("
    /\ WordRunEnd(str, GroupStart(str, i)) >= GroupStart(str, i)
    /\ WordRunEnd(str, GroupStart(str, i)) + 2 <= Len(str)
    /\ str[WordRunEnd(str, GroupStart(str, i)) + 1] = ")"
    /\ str[WordRunEnd(str, GroupStart(str, i)) + 2] = "."

\* the capture group of the expression matched at position i
GroupAt(str, i) ==
    SubSeq(str, GroupStart(str, i), WordRunEnd(str, GroupStart(str, i)))

\* functionName.match(/\(\*?(\w+)\)\./): the first match from the left
receiverMatch(str) ==
    IF \E i \in 1..Len(str) : ReceiverMatchesAt(str, i)
    THEN [found |-> TRUE,
          group |-> GroupAt(str, CHOOSE i \in 1..Len(str) :
                                 /\ ReceiverMatchesAt(str, i)
                                 /\ \A j \in 1..(i - 1) : ~ReceiverMatchesAt(str, j))]
    ELSE [found |-> FALSE, group |-> << >>]
\* the word Service that /\(\*?(\w+Service)\)\./i looks for, in lower case
ServiceSuffix ==
    << "s", "e", "r", "v", "i", "c", "e" >>

\* /\(\*?(\w+Service)\)\./i matches at position i: the group is a run of word
\* characters that ends in "service" (in any case) after at least one more
\* word character
ServiceReceiverMatchesAt(str, i) ==
    /\ ReceiverMatchesAt(str, i)
    /\ Len(GroupAt(str, i)) > Len(ServiceSuffix)
    /\ toLowerCase(SubSeq(GroupAt(str, i),
                          Len(GroupAt(str, i)) - Len(ServiceSuffix) + 1,
                          Len(GroupAt(str, i)))) = ServiceSuffix

\* func.name.match(/\(\*?(\w+Service)\)\./i)
serviceReceiverMatch(str) ==
    IF \E i \in 1..Len(str) : ServiceReceiverMatchesAt(str, i)
    THEN [found |-> TRUE,
          group |-> GroupAt(str, CHOOSE i \in 1..Len(str) :
                                 /\ ServiceReceiverMatchesAt(str, i)
                                 /\ \A j \in 1..(i - 1) :
                                        ~ServiceReceiverMatchesAt(str, j))]
    ELSE [found |-> FALSE, group |-> << >>]
\* ['usr', 'src', 'app', 'go', 'code', 'workspace'] (line 74)
CommonPrefixes ==
    { << "u", "s", "r" >>,
      << "s", "r", "c" >>,
      << "a", "p", "p" >>,
      << "g", "o" >>,
      << "c", "o", "d", "e" >>,
      << "w", "o", "r", "k", "s", "p", "a", "c", "e" >> }

MainPackage ==
    << "m", "a", "i", "n" >>

\* lines 71-82: the hints taken from the directories of the profiled path
RECURSIVE pathHintsFrom(_, _, _)
pathHintsFrom(pathParts, i, hints) ==
    IF i > Len(pathParts) - 1 THEN hints
    ELSE IF toLowerCase(pathParts[i]) \in CommonPrefixes
    THEN pathHintsFrom(pathParts, i + 1, hints)
    ELSE IF includes(pathParts[i], ServiceSuffix) \/ i = Len(pathParts) - 1
    THEN pathHintsFrom(pathParts, i + 1,
                       Append(hints, toLowerCase(pathParts[i])))
    ELSE pathHintsFrom(pathParts, i + 1, hints)

\* serviceHints.push(hint) unless it is already included
pushIfNew(hints, hint) ==
    IF arrayIncludes(hints, hint) THEN hints ELSE Append(hints, hint)

\* lines 98-107: the hint taken from the package path of the function name
packageHint(hints, parts) ==
    IF Len(parts) > 1
    THEN IF toLowerCase(split(parts[Len(parts)], ".")[1]) # MainPackage
         THEN pushIfNew(hints, toLowerCase(split(parts[Len(parts)], ".")[1]))
         ELSE hints
    ELSE hints

\* lines 85-109: the hint taken from the function name
functionHints(hints, functionName) ==
    IF functionName = << >> THEN hints
    ELSE IF receiverMatch(functionName).found
    THEN pushIfNew(hints, toLowerCase(receiverMatch(functionName).group))
    ELSE packageHint(hints, split(functionName, "/"))

\* lines 116-128: the hints taken from the other functions of the same file
RECURSIVE siblingHintsFrom(_, _, _, _)
siblingHintsFrom(hints, topFunctions, k, profilePath) ==
    IF k > Len(topFunctions) THEN hints
    ELSE IF /\ topFunctions[k].fileName = profilePath
            /\ serviceReceiverMatch(topFunctions[k].name).found
    THEN siblingHintsFrom(
             pushIfNew(hints,
                       toLowerCase(serviceReceiverMatch(topFunctions[k].name).group)),
             topFunctions, k + 1, profilePath)
    ELSE siblingHintsFrom(hints, topFunctions, k + 1, profilePath)

\* lines 112-129
siblingHints(hints, topFunctions, profilePath) ==
    IF Len(hints) = 0
    THEN siblingHintsFrom(hints, topFunctions, 1, profilePath)
    ELSE hints

\* lines 63-129: serviceHints
serviceHintsOf(profilePath, functionName, topFunctions) ==
    siblingHints(
        functionHints(
            pathHintsFrom(filterNonEmpty(split(profilePath, "/")), 1, << >>),
            functionName),
        topFunctions, profilePath)

\* (mutation of hintStep: every matching hint adds its score)
hintStep_PerHint(maxHintScore, filePathLower, hint) ==
    IF includes(filePathLower, << "/" >> \o hint \o << "/" >>)
    THEN maxHintScore + 100
    ELSE IF includes(filePathLower, hint)
    THEN maxHintScore + 50
    ELSE maxHintScore

\* lines 151-161: one turn of `for (const hint of serviceHints)`
hintStep(maxHintScore, filePathLower, hint) ==
    IF includes(filePathLower, << "/" >> \o hint \o << "/" >>)
    THEN (IF 100 > maxHintScore THEN 100 ELSE maxHintScore)
    ELSE IF includes(filePathLower, hint)
    THEN (IF 50 > maxHintScore THEN 50 ELSE maxHintScore)
    ELSE maxHintScore

\* lines 147-162: maxHintScore after the loop
RECURSIVE maxHintScoreFrom(_, _, _, _)
maxHintScoreFrom(maxHintScore, filePathLower, hints, k) ==
    IF k > Len(hints) THEN maxHintScore
    ELSE maxHintScoreFrom(hintStep(maxHintScore, filePathLower, hints[k]),
                          filePathLower, hints, k + 1)

\* (mutation of consecutiveMatchesFrom: only the last segments are compared)
consecutiveMatches_LastOnly(profileParts, fileParts, i, j, count) ==
    IF i >= 1 /\ j >= 1 /\ profileParts[i] = fileParts[j] THEN 1 ELSE 0

\* lines 178-189: consecutiveMatches, counted from the ends of both paths
RECURSIVE consecutiveMatchesFrom(_, _, _, _, _)
consecutiveMatchesFrom(profileParts, fileParts, i, j, count) ==
    IF i >= 1 /\ j >= 1
    THEN IF profileParts[i] = fileParts[j]
         THEN consecutiveMatchesFrom(profileParts, fileParts, i - 1, j - 1,
                                     count + 1)
         ELSE count
    ELSE count

\* lines 193-197: the bonus for segments of the profiled path found anywhere
RECURSIVE anywhereBonusFrom(_, _, _, _)
anywhereBonusFrom(profileParts, fileParts, k, bonus) ==
    IF k > Len(profileParts) THEN bonus
    ELSE anywhereBonusFrom(profileParts, fileParts, k + 1,
                           IF arrayIncludes(fileParts, profileParts[k])
                           THEN bonus + 5 ELSE bonus)

\* lines 141-197: the score of one candidate
scoreOfParts(profileParts, hints, filePath, fileParts) ==
    maxHintScoreFrom(0, toLowerCase(filePath), hints, 1)
    + consecutiveMatchesFrom(profileParts, fileParts, Len(profileParts),
                             Len(fileParts), 0) * 10
    + anywhereBonusFrom(profileParts, fileParts, 1, 0)

scoreOf(profilePath, hints, filePath) ==
    scoreOfParts(filterNonEmpty(split(profilePath, "/")), hints, filePath,
                 filterNonEmpty(split(filePath, "/")))

\* (mutation of IsBetter: a candidate as good as the best one replaces it)
IsBetter_OrEqual(score, bestScore) ==
    score >= bestScore

\* line 207: whether the candidate replaces the best match so far
IsBetter(score, bestScore) ==
    score > bestScore

(***************************************************************************)
(* Specification SpecPath: findFileInWorkspace on profiled paths, function *)
(* names and candidate lists in every discovery order.                     *)
(***************************************************************************)
MaxCandidates == 2

\* the profiled path of the checkout service (comment of line 66)
CheckoutProfilePath ==
    << "/", "u", "s", "r", "/", "s", "r", "c", "/", "a", "p", "p", "/", "s",
       "r", "c", "/", "c", "h", "e", "c", "k", "o", "u", "t", "s", "e", "r",
       "v", "i", "c", "e", "/", "m", "a", "i", "n", ".", "g", "o" >>

\* a profiled path all of whose directories are common prefixes
AppProfilePath ==
    << "/", "a", "p", "p", "/", "m", "a", "i", "n", ".", "g", "o" >>

\* function names: a pointer receiver (comment of line 87)
PlaceOrderName ==
    << "m", "a", "i", "n", ".", "(", "*", "c", "h", "e", "c", "k", "o", "u",
       "t", "S", "e", "r", "v", "i", "c", "e", ")", ".", "P", "l", "a", "c",
       "e", "O", "r", "d", "e", "r" >>

\* a value receiver with an upper-case letter
ServeName ==
    << "m", "a", "i", "n", ".", "(", "F", "r", "o", "n", "t", "e", "n", "d",
       ")", ".", "S", "e", "r", "v", "e" >>

\* a package path
PayRunName ==
    << "x", "/", "p", "a", "y", ".", "R", "u", "n" >>

\* neither receiver nor package path
MainRunName ==
    << "m", "a", "i", "n", ".", "r", "u", "n" >>

\* a sibling function with a ...Service receiver
CartAddName ==
    << "m", "a", "i", "n", ".", "(", "*", "c", "a", "r", "t", "S", "e", "r",
       "v", "i", "c", "e", ")", ".", "A", "d", "d" >>

\* candidates under the workspace root /w
CheckoutCandidate ==
    << "/", "w", "/", "c", "h", "e", "c", "k", "o", "u", "t", "s", "e", "r",
       "v", "i", "c", "e", "/", "m", "a", "i", "n", ".", "g", "o" >>

FrontendCandidate ==
    << "/", "w", "/", "f", "r", "o", "n", "t", "e", "n", "d", "/", "m", "a",
       "i", "n", ".", "g", "o" >>

\* candidates under a root that repeats directories of the profiled path
DeepCheckoutCandidate ==
    << "/", "w", "/", "s", "r", "c", "/", "a", "p", "p", "/", "s", "r", "c",
       "/", "c", "h", "e", "c", "k", "o", "u", "t", "s", "e", "r", "v", "i",
       "c", "e", "/", "m", "a", "i", "n", ".", "g", "o" >>

DeepFrontendCandidate ==
    << "/", "w", "/", "s", "r", "c", "/", "a", "p", "p", "/", "s", "r", "c",
       "/", "f", "r", "o", "n", "t", "e", "n", "d", "/", "m", "a", "i", "n",
       ".", "g", "o" >>

\* candidates under a root that is itself named like the service
NestedCheckoutCandidate ==
    << "/", "w", "/", "c", "h", "e", "c", "k", "o", "u", "t", "s", "e", "r",
       "v", "i", "c", "e", "/", "c", "h", "e", "c", "k", "o", "u", "t", "s",
       "e", "r", "v", "i", "c", "e", "/", "m", "a", "i", "n", ".", "g", "o" >>

NestedFrontendCandidate ==
    << "/", "w", "/", "c", "h", "e", "c", "k", "o", "u", "t", "s", "e", "r",
       "v", "i", "c", "e", "/", "f", "r", "o", "n", "t", "e", "n", "d", "/",
       "m", "a", "i", "n", ".", "g", "o" >>

\* a candidate that contains the hint pay only as a substring
PaymentsCandidate ==
    << "/", "w", "/", "p", "a", "y", "m", "e", "n", "t", "s", "/", "m", "a",
       "i", "n", ".", "g", "o" >>

\* a candidate with upper-case letters
CartCandidate ==
    << "/", "w", "/", "C", "a", "r", "t", "S", "e", "r", "v", "i", "c", "e",
       "/", "m", "a", "i", "n", ".", "g", "o" >>

\* candidates that share no segment with the profiled paths (findFiles takes
\* the basename as a glob pattern, so a candidate need not carry the basename)
OtherNameCandidateA ==
    << "/", "w", "/", "x", "/", "a", ".", "g", "o" >>

OtherNameCandidateB ==
    << "/", "w", "/", "y", "/", "b", ".", "g", "o" >>

CandidatePalette ==
    { CheckoutCandidate, FrontendCandidate, DeepCheckoutCandidate,
      DeepFrontendCandidate, NestedCheckoutCandidate, NestedFrontendCandidate,
      PaymentsCandidate, CartCandidate, OtherNameCandidateA,
      OtherNameCandidateB }

\* what findFiles can return: up to MaxCandidates different files in any order
CandidateLists ==
    UNION { { fs \in [1..n -> CandidatePalette] :
                \A a, b \in 1..n : a # b => fs[a] # fs[b] } :
            n \in 0..MaxCandidates }

\* the arguments of a call: profilePath, functionName, profile.topFunctions
PathCalls ==
    { [profilePath |-> CheckoutProfilePath, functionName |-> fn,
       topFunctions |-> << >>] :
          fn \in { << >>, PlaceOrderName, ServeName } }
    \cup
    { [profilePath |-> AppProfilePath, functionName |-> fn, topFunctions |-> tf] :
          fn \in { << >>, PayRunName, MainRunName },
          tf \in { << >>,
                   << [fileName |-> CheckoutProfilePath, name |-> PlaceOrderName],
                      [fileName |-> AppProfilePath, name |-> MainRunName],
                      [fileName |-> AppProfilePath, name |-> CartAddName] >> } }

NoUri ==
    [kind |-> "null"]

Uri(fsPath) ==
    [kind |-> "uri", fsPath |-> fsPath]

InitPath ==
    /\ ParserIdle
    /\ WireIdle
    /\ VarintIdle
    /\ IdIdle
    /\ FileIdle
    /\ LoadIdle
    /\ HeatIdle
    /\ pathPc = "start"
    /\ \E call \in PathCalls :
          /\ pathProfilePath = call.profilePath
          /\ pathFunctionName = call.functionName
          /\ pathTopFunctions = call.topFunctions
    /\ pathExactExists \in BOOLEAN
    /\ pathHasWorkspace \in BOOLEAN
    /\ pathFiles = << >>
    /\ pathHints = << >>
    /\ pathIndex = 0
    /\ pathScores = << >>
    /\ pathBestMatch = 0
    /\ pathBestScore = 0
    /\ pathResult = [kind |-> "none"]

\* lines 19-27: the file exists at the exact path
ReturnExactPath ==
    /\ pathPc = "start"
    /\ pathExactExists
    /\ pathPc' = "returned"
    /\ pathResult' = Uri(pathProfilePath)
    /\ UNCHANGED << pathProfilePath, pathFunctionName, pathTopFunctions,
                    pathExactExists, pathHasWorkspace, pathFiles, pathHints,
                    pathIndex, pathScores, pathBestMatch, pathBestScore >>
    /\ UNCHANGED << parserVars, wireVars, varintVars, idVars, fileVars, loadVars,
                    heatVars >>

\* lines 34-37: no workspace folder is open
ReturnNoWorkspace ==
    /\ pathPc = "start"
    /\ ~pathExactExists
    /\ ~pathHasWorkspace
    /\ pathPc' = "returned"
    /\ pathResult' = NoUri
    /\ UNCHANGED << pathProfilePath, pathFunctionName, pathTopFunctions,
                    pathExactExists, pathHasWorkspace, pathFiles, pathHints,
                    pathIndex, pathScores, pathBestMatch, pathBestScore >>
    /\ UNCHANGED << parserVars, wireVars, varintVars, idVars, fileVars, loadVars,
                    heatVars >>

\* lines 40-44: findFiles returns the candidates
FindFiles ==
    /\ pathPc = "start"
    /\ ~pathExactExists
    /\ pathHasWorkspace
    /\ pathFiles' \in CandidateLists
    /\ pathPc' = "found"
    /\ UNCHANGED << pathProfilePath, pathFunctionName, pathTopFunctions,
                    pathExactExists, pathHasWorkspace, pathHints, pathIndex,
                    pathScores, pathBestMatch, pathBestScore, pathResult >>
    /\ UNCHANGED << parserVars, wireVars, varintVars, idVars, fileVars, loadVars,
                    heatVars >>

\* lines 46-48
ReturnNoCandidate ==
    /\ pathPc = "found"
    /\ Len(pathFiles) = 0
    /\ pathPc' = "returned"
    /\ pathResult' = NoUri
    /\ UNCHANGED << pathProfilePath, pathFunctionName, pathTopFunctions,
                    pathExactExists, pathHasWorkspace, pathFiles, pathHints,
                    pathIndex, pathScores, pathBestMatch, pathBestScore >>
    /\ UNCHANGED << parserVars, wireVars, varintVars, idVars, fileVars, loadVars,
                    heatVars >>

\* lines 51-53
ReturnOnlyCandidate ==
    /\ pathPc = "found"
    /\ Len(pathFiles) = 1
    /\ pathPc' = "returned"
    /\ pathResult' = Uri(pathFiles[1])
    /\ UNCHANGED << pathProfilePath, pathFunctionName, pathTopFunctions,
                    pathExactExists, pathHasWorkspace, pathFiles, pathHints,
                    pathIndex, pathScores, pathBestMatch, pathBestScore >>
    /\ UNCHANGED << parserVars, wireVars, varintVars, idVars, fileVars, loadVars,
                    heatVars >>

\* lines 62-138: the hints are extracted, the scoring loop is entered
ExtractHints ==
    /\ pathPc = "found"
    /\ Len(pathFiles) > 1
    /\ pathHints' = serviceHintsOf(pathProfilePath, pathFunctionName,
                                   pathTopFunctions)
    /\ pathIndex' = 1
    /\ pathBestMatch' = 0
    /\ pathBestScore' = 0
    /\ pathPc' = "scoring"
    /\ UNCHANGED << pathProfilePath, pathFunctionName, pathTopFunctions,
                    pathExactExists, pathHasWorkspace, pathFiles, pathScores,
                    pathResult >>
    /\ UNCHANGED << parserVars, wireVars, varintVars, idVars, fileVars, loadVars,
                    heatVars >>

\* lines 140-211: one turn of `for (const fileUri of files)`
ScoreCandidate ==
    /\ pathPc = "scoring"
    /\ pathIndex <= Len(pathFiles)
    /\ pathScores' = Append(pathScores,
                            scoreOf(pathProfilePath, pathHints,
                                    pathFiles[pathIndex]))
    /\ pathBestScore' = IF IsBetter(pathScores'[pathIndex], pathBestScore)
                        THEN pathScores'[pathIndex] ELSE pathBestScore
    /\ pathBestMatch' = IF IsBetter(pathScores'[pathIndex], pathBestScore)
                        THEN pathIndex ELSE pathBestMatch
    /\ pathIndex' = pathIndex + 1
    /\ UNCHANGED << pathProfilePath, pathFunctionName, pathTopFunctions,
                    pathExactExists, pathHasWorkspace, pathFiles, pathHints,
                    pathPc, pathResult >>
    /\ UNCHANGED << parserVars, wireVars, varintVars, idVars, fileVars, loadVars,
                    heatVars >>

\* lines 213-219: return bestMatch
ReturnBestMatch ==
    /\ pathPc = "scoring"
    /\ pathIndex > Len(pathFiles)
    /\ pathPc' = "returned"
    /\ pathResult' = IF pathBestMatch = 0 THEN NoUri
                     ELSE Uri(pathFiles[pathBestMatch])
    /\ UNCHANGED << pathProfilePath, pathFunctionName, pathTopFunctions,
                    pathExactExists, pathHasWorkspace, pathFiles, pathHints,
                    pathIndex, pathScores, pathBestMatch, pathBestScore >>
    /\ UNCHANGED << parserVars, wireVars, varintVars, idVars, fileVars, loadVars,
                    heatVars >>

NextPath ==
    \/ ReturnExactPath
    \/ ReturnNoWorkspace
    \/ FindFiles
    \/ ReturnNoCandidate
    \/ ReturnOnlyCandidate
    \/ ExtractHints
    \/ ScoreCandidate
    \/ ReturnBestMatch

SpecPath ==
    InitPath /\ [][NextPath]_vars

(***************************************************************************)
(* Properties of SpecPath                                                  *)
(***************************************************************************)
\* findFileInWorkspace returned after scoring or short-cutting the candidates
ReturnedFromCandidates ==
    pathPc = "returned" /\ ~pathExactExists /\ pathHasWorkspace

\* the checkoutservice and the frontend candidate under one workspace root
CheckoutFrontendPairs ==
    { << CheckoutCandidate, FrontendCandidate >>,
      << DeepCheckoutCandidate, DeepFrontendCandidate >>,
      << NestedCheckoutCandidate, NestedFrontendCandidate >> }

\* C15: for the profiled path /usr/src/app/src/checkoutservice/main.go with
\* function main.(*checkoutService).PlaceOrder and the two candidates
\* <root>/checkoutservice/main.go and <root>/frontend/main.go, discovered in
\* either order, the checkoutservice candidate is returned and its score is
\* strictly higher than the score of the frontend candidate.
C15_CheckoutServiceSelected ==
    \A pair \in CheckoutFrontendPairs :
        (/\ ReturnedFromCandidates
         /\ pathProfilePath = CheckoutProfilePath
         /\ pathFunctionName = PlaceOrderName
         /\ pathFiles \in { << pair[1], pair[2] >>, << pair[2], pair[1] >> })
        => /\ pathResult = Uri(pair[1])
           /\ \A a, b \in 1..2 :
                 (pathFiles[a] = pair[1] /\ pathFiles[b] = pair[2])
                     => pathScores[a] > pathScores[b]

\* the frontend candidate was discovered first, under a root named like the
\* service, and the call has returned
C15_Witness ==
    /\ ReturnedFromCandidates
    /\ pathProfilePath = CheckoutProfilePath
    /\ pathFunctionName = PlaceOrderName
    /\ pathFiles = << NestedFrontendCandidate, NestedCheckoutCandidate >>
    /\ Len(pathScores) = 2

\* the score of every candidate, whether or not the scoring loop has run
CandidateScores ==
    [k \in 1..Len(pathFiles) |->
        scoreOf(pathProfilePath,
                serviceHintsOf(pathProfilePath, pathFunctionName,
                               pathTopFunctions),
                pathFiles[k])]

\* candidate k has the highest score and is the earliest one that has it
HighestEarliest(scores, k) ==
    /\ \A m \in 1..Len(scores) : scores[m] <= scores[k]
    /\ \A m \in 1..(k - 1) : scores[m] < scores[k]

Segments(path) ==
    filterNonEmpty(split(path, "/"))

\* H: 100 if some directory of the lower-cased candidate is a hint, else 50
\* if the lower-cased candidate contains a hint, else 0
HintTerm(hints, filePath) ==
    IF \E h \in 1..Len(hints) :
           \E k \in 1..(Len(Segments(filePath)) - 1) :
               toLowerCase(Segments(filePath)[k]) = hints[h]
    THEN 100
    ELSE IF \E h \in 1..Len(hints) : includes(toLowerCase(filePath), hints[h])
    THEN 50
    ELSE 0

\* C: the number of equal segments at the ends of the two paths
ConsecutiveTerm(profileParts, fileParts) ==
    CHOOSE c \in 0..Len(profileParts) :
        /\ c <= Len(fileParts)
        /\ \A m \in 0..(c - 1) :
               profileParts[Len(profileParts) - m] = fileParts[Len(fileParts) - m]
        /\ \/ c = Len(profileParts)
           \/ c = Len(fileParts)
           \/ profileParts[Len(profileParts) - c] # fileParts[Len(fileParts) - c]

\* S: the number of segments of the profiled path found among the candidate's
AnywhereTerm(profileParts, fileParts) ==
    Cardinality({ k \in 1..Len(profileParts) :
                    \E j \in 1..Len(fileParts) : fileParts[j] = profileParts[k] })

\* C20: the score computed for every candidate is H + 10*C + 5*S.
C20_ScoreFormula ==
    \A k \in 1..Len(pathScores) :
        pathScores[k] =
            HintTerm(pathHints, pathFiles[k])
            + 10 * ConsecutiveTerm(Segments(pathProfilePath),
                                   Segments(pathFiles[k]))
            + 5 * AnywhereTerm(Segments(pathProfilePath), Segments(pathFiles[k]))

\* a candidate that has two different hints as directories, and one segment
\* that the profiled path has twice, was scored
C20_Witness ==
    /\ Len(pathScores) >= 2
    /\ Len(pathHints) = 2
    /\ pathHints[1] # pathHints[2]
    /\ pathFiles[1] = NestedFrontendCandidate
    /\ \A h \in 1..2 :
          includes(pathFiles[1], << "/" >> \o pathHints[h] \o << "/" >>)
    /\ pathFiles[2] = DeepCheckoutCandidate
    /\ AnywhereTerm(Segments(pathProfilePath), Segments(pathFiles[2])) = 5

(***************************************************************************)
(* Specification SpecIds: the lookup maps of PprofParser.parseProtobuf     *)
(* (lines 215-225) filled from functions and locations with 64-bit ids,    *)
(* and the lookups of one frame (lines 258-275).                           *)
(***************************************************************************)
MaxEntities == 2

\* ids as sets of bit positions: 1, 2, 2^32, 2^32 + 1, 2^53, 2^53 + 1
IdPalette ==
    { {0}, {1}, {32}, {32, 0}, {53}, {53, 0} }

\* up to MaxEntities entities with different ids, in any order
IdLists ==
    UNION { { ids \in [1..n -> IdPalette] :
                \A a, b \in 1..n : a # b => ids[a] # ids[b] } :
            n \in 1..MaxEntities }

\* Function messages with the given ids
FunctionsWithIds(ids) ==
    [k \in 1..Len(ids) |->
        [id |-> ids[k], name |-> 4, filename |-> 6, startLine |-> 10 * k]]

\* Location messages with the given ids; location k has one Line, of function
\* fids[k] (of the last function if there are fewer functions)
LocationsWithIds(ids, fids) ==
    [k \in 1..Len(ids) |->
        [id |-> ids[k],
         line |-> << [functionId |-> fids[IF k <= Len(fids) THEN k ELSE Len(fids)],
                      line |-> 10 * k + 1] >>]]

InitIds ==
    /\ ParserIdle
    /\ WireIdle
    /\ VarintIdle
    /\ PathIdle
    /\ FileIdle
    /\ LoadIdle
    /\ HeatIdle
    /\ idPc = "functions"
    /\ \E fids \in IdLists, lids \in IdLists :
          /\ idFunctions = FunctionsWithIds(fids)
          /\ idLocations = LocationsWithIds(lids, fids)
    /\ idIndex = 1
    /\ idFunctionMap = << >>
    /\ idLocationMap = << >>
    /\ idLocationId = {}
    /\ idLocation = [found |-> FALSE]
    /\ idFunction = [found |-> FALSE]

\* lines 218-220: functionMap.set(Number(func.id), func)
SetFunction ==
    /\ idPc = "functions"
    /\ idIndex <= Len(idFunctions)
    /\ idFunctionMap' = MapSet(idFunctionMap,
                               NumberOfBigInt(idFunctions[idIndex].id),
                               idFunctions[idIndex])
    /\ idIndex' = idIndex + 1
    /\ UNCHANGED << idPc, idFunctions, idLocations, idLocationMap,
                    idLocationId, idLocation, idFunction >>
    /\ UNCHANGED << parserVars, wireVars, varintVars, pathVars, fileVars, loadVars,
                    heatVars >>

\* the forEach over pprofData.function is over
FunctionsDone ==
    /\ idPc = "functions"
    /\ idIndex > Len(idFunctions)
    /\ idPc' = "locations"
    /\ idIndex' = 1
    /\ UNCHANGED << idFunctions, idLocations, idFunctionMap, idLocationMap,
                    idLocationId, idLocation, idFunction >>
    /\ UNCHANGED << parserVars, wireVars, varintVars, pathVars, fileVars, loadVars,
                    heatVars >>

\* lines 222-224: locationMap.set(Number(loc.id), loc)
SetLocation ==
    /\ idPc = "locations"
    /\ idIndex <= Len(idLocations)
    /\ idLocationMap' = MapSet(idLocationMap,
                               NumberOfBigInt(idLocations[idIndex].id),
                               idLocations[idIndex])
    /\ idIndex' = idIndex + 1
    /\ UNCHANGED << idPc, idFunctions, idLocations, idFunctionMap,
                    idLocationId, idLocation, idFunction >>
    /\ UNCHANGED << parserVars, wireVars, varintVars, pathVars, fileVars, loadVars,
                    heatVars >>

\* the forEach over pprofData.location is over
LocationsDone ==
    /\ idPc = "locations"
    /\ idIndex > Len(idLocations)
    /\ idPc' = "sample"
    /\ UNCHANGED << idFunctions, idLocations, idIndex, idFunctionMap,
                    idLocationMap, idLocationId, idLocation, idFunction >>
    /\ UNCHANGED << parserVars, wireVars, varintVars, pathVars, fileVars, loadVars,
                    heatVars >>

\* lines 258-270: a location id of a sample is looked up; the frame is
\* skipped when there is no such location
LookupLocation ==
    /\ idPc = "sample"
    /\ \E locationId \in IdPalette :
          /\ idLocationId' = locationId
          /\ IF MapHas(idLocationMap, NumberOfBigInt(locationId))
             THEN /\ idLocation' = [found |-> TRUE,
                                    value |-> MapGet(idLocationMap,
                                                     NumberOfBigInt(locationId))]
                  /\ idPc' = "line"
             ELSE /\ idLocation' = [found |-> FALSE]
                  /\ idPc' = "done"
    /\ UNCHANGED << idFunctions, idLocations, idIndex, idFunctionMap,
                    idLocationMap, idFunction >>
    /\ UNCHANGED << parserVars, wireVars, varintVars, pathVars, fileVars, loadVars,
                    heatVars >>

\* lines 273-276: the function of the location's line is looked up
LookupFunction ==
    /\ idPc = "line"
    /\ idFunction' =
          IF MapHas(idFunctionMap,
                    NumberOfBigInt(idLocation.value.line[1].functionId))
          THEN [found |-> TRUE,
                value |-> MapGet(idFunctionMap,
                                 NumberOfBigInt(idLocation.value.line[1].functionId))]
          ELSE [found |-> FALSE]
    /\ idPc' = "done"
    /\ UNCHANGED << idFunctions, idLocations, idIndex, idFunctionMap,
                    idLocationMap, idLocationId, idLocation >>
    /\ UNCHANGED << parserVars, wireVars, varintVars, pathVars, fileVars, loadVars,
                    heatVars >>

NextIds ==
    \/ SetFunction
    \/ FunctionsDone
    \/ SetLocation
    \/ LocationsDone
    \/ LookupLocation
    \/ LookupFunction

SpecIds ==
    InitIds /\ [][NextIds]_vars

(***************************************************************************)
(* Properties of SpecIds                                                   *)
(***************************************************************************)
\* C17: different ids never share a lookup key: once the maps are filled
\* each holds one entry per function and per location, a location id of a
\* sample resolves to nothing or to the Location with that id, and the
\* function id of a Line resolves to nothing or to the Function with that id.
C17_IdsKeptApartAtFullWidth ==
    /\ idPc \in {"sample", "line", "done"}
           => /\ Len(idFunctionMap) = Len(idFunctions)
              /\ Len(idLocationMap) = Len(idLocations)
    /\ idLocation.found => idLocation.value.id = idLocationId
    /\ idFunction.found
           => idFunction.value.id = idLocation.value.line[1].functionId

\* The same for profiles and samples whose ids are all below 2^53.
IdsKeptApart_Below2To53 ==
    (/\ \A k \in 1..Len(idFunctions) : \A b \in idFunctions[k].id : b < 53
     /\ \A k \in 1..Len(idLocations) : \A b \in idLocations[k].id : b < 53
     /\ \A b \in idLocationId : b < 53)
        => C17_IdsKeptApartAtFullWidth

(***************************************************************************)
(* PprofParser.getFileMetrics (pprofParser.ts).  profile.fileMetrics is a  *)
(* Map; the model holds its keys in insertion order and stands for a value *)
(* by the position of its key.                                             *)
(***************************************************************************)
\* str.split('/').pop() || str
lastPartOrSelf(str, parts) ==
    IF parts[Len(parts)] # << >> THEN parts[Len(parts)] ELSE str

baseNameOf(str) ==
    lastPartOrSelf(str, split(str, "/"))

\* str.split('/').filter(p => p)
partsOf(str) ==
    filterNonEmpty(split(str, "/"))

\* for (const filePart of fileNameParts)
\*     if (keyParts.includes(filePart)) score += 5
RECURSIVE matchingPartsFrom(_, _, _, _)
matchingPartsFrom(fileNameParts, keyParts, i, score) ==
    IF i > Len(fileNameParts) THEN score
    ELSE matchingPartsFrom(fileNameParts, keyParts, i + 1,
             IF arrayIncludes(keyParts, fileNameParts[i])
             THEN score + 5 ELSE score)

\* (mutation of parentDirOf: the case is kept)
parentDirOf_CaseKept(parts) ==
    IF Len(parts) >= 2 THEN parts[Len(parts) - 1] ELSE << >>

\* parts[parts.length - 2]?.toLowerCase(); << >> stands for undefined
parentDirOf(parts) ==
    IF Len(parts) >= 2 THEN toLowerCase(parts[Len(parts) - 1]) ELSE << >>

\* if (fileParentDir && keyParentDir && fileParentDir === keyParentDir)
\*     score += 50
parentDirBonus(fileParentDir, keyParentDir, score) ==
    IF fileParentDir # << >> /\ keyParentDir # << >>
          /\ fileParentDir = keyParentDir
    THEN score + 50
    ELSE score

\* the score of a key whose basename matches: let score = 10 ...
fileScoreOf(fileName, key) ==
    parentDirBonus(parentDirOf(partsOf(fileName)), parentDirOf(partsOf(key)),
                   matchingPartsFrom(partsOf(fileName), partsOf(key), 1, 10))

(***************************************************************************)
(* SpecFile: getFileMetrics runs on a file name and a profile with up to   *)
(* MaxKeys files.                                                          *)
(***************************************************************************)
MaxKeys == 2

\* files open in the editor: the parent directory differs in case from
\* the profile's
PayEditorFile ==
    << "/", "w", "/", "s", "r", "c", "/", "P", "a", "y", "/", "a", ".", "g",
       "o" >>

\* a file that is itself a key of the profile
PayLowerEditorFile ==
    << "/", "w", "/", "p", "a", "y", "/", "a", ".", "g", "o" >>

\* a file name without a directory
BareEditorFile ==
    << "a", ".", "g", "o" >>

\* a directory that occurs twice
RepeatedEditorFile ==
    << "/", "w", "/", "s", "r", "c", "/", "s", "r", "c", "/", "a", ".", "g",
       "o" >>

\* keys of profile.fileMetrics
PayKey ==
    << "/", "a", "p", "p", "/", "p", "a", "y", "/", "a", ".", "g", "o" >>

CartKey ==
    << "/", "a", "p", "p", "/", "c", "a", "r", "t", "/", "a", ".", "g", "o" >>

SharedDirsKey ==
    << "/", "s", "r", "c", "/", "w", "/", "x", "/", "a", ".", "g", "o" >>

OtherBaseKey ==
    << "/", "a", "p", "p", "/", "p", "a", "y", "/", "b", ".", "g", "o" >>

WorkspaceKey ==
    << "/", "w", "/", "p", "a", "y", "/", "a", ".", "g", "o" >>

BareKey ==
    << "a", ".", "g", "o" >>

SrcKey ==
    << "/", "s", "r", "c", "/", "a", ".", "g", "o" >>
EditorFiles ==
    { PayEditorFile, PayLowerEditorFile, BareEditorFile, RepeatedEditorFile }

KeyPalette ==
    { PayKey, CartKey, SharedDirsKey, OtherBaseKey, WorkspaceKey, BareKey,
      SrcKey }

\* the key lists of a Map: no key twice
KeyLists ==
    UNION { { l \in [1..n -> KeyPalette] :
                \A i, j \in 1..n : i # j => l[i] # l[j] } : n \in 0..MaxKeys }

NoMetrics ==
    [kind |-> "undefined"]

Metrics(i) ==
    [kind |-> "metrics", index |-> i]

InitFile ==
    /\ ParserIdle
    /\ WireIdle
    /\ VarintIdle
    /\ PathIdle
    /\ IdIdle
    /\ LoadIdle
    /\ HeatIdle
    /\ fmPc = "start"
    /\ fmFileName \in EditorFiles
    /\ fmKeys \in KeyLists
    /\ fmIndex = 0
    /\ fmBestMatch = 0
    /\ fmBestScore = 0
    /\ fmResult = [kind |-> "none"]

\* let metrics = profile.fileMetrics.get(fileName); if (metrics) return metrics
ReturnExactMatch ==
    /\ fmPc = "start"
    /\ arrayIncludes(fmKeys, fmFileName)
    /\ fmResult' = Metrics(CHOOSE i \in 1..Len(fmKeys) : fmKeys[i] = fmFileName)
    /\ fmPc' = "returned"
    /\ UNCHANGED << fmFileName, fmKeys, fmIndex, fmBestMatch, fmBestScore >>
    /\ UNCHANGED << parserVars, wireVars, varintVars, pathVars, idVars, loadVars,
                    heatVars >>

\* no exact match: let bestMatch = undefined; let bestScore = 0
StartMatching ==
    /\ fmPc = "start"
    /\ ~arrayIncludes(fmKeys, fmFileName)
    /\ fmPc' = "loop"
    /\ fmIndex' = 1
    /\ fmBestMatch' = 0
    /\ fmBestScore' = 0
    /\ UNCHANGED << fmFileName, fmKeys, fmResult >>
    /\ UNCHANGED << parserVars, wireVars, varintVars, pathVars, idVars, loadVars,
                    heatVars >>

\* if (keyBaseName !== baseName) continue
SkipOtherBaseName ==
    /\ fmPc = "loop"
    /\ fmIndex <= Len(fmKeys)
    /\ baseNameOf(fmKeys[fmIndex]) # baseNameOf(fmFileName)
    /\ fmIndex' = fmIndex + 1
    /\ UNCHANGED << fmPc, fmFileName, fmKeys, fmBestMatch, fmBestScore,
                    fmResult >>
    /\ UNCHANGED << parserVars, wireVars, varintVars, pathVars, idVars, loadVars,
                    heatVars >>

\* the key is scored: if (score > bestScore) { bestScore = score; bestMatch = value }
ScoreKey ==
    /\ fmPc = "loop"
    /\ fmIndex <= Len(fmKeys)
    /\ baseNameOf(fmKeys[fmIndex]) = baseNameOf(fmFileName)
    /\ fmBestMatch' = IF fileScoreOf(fmFileName, fmKeys[fmIndex]) > fmBestScore
                      THEN fmIndex ELSE fmBestMatch
    /\ fmBestScore' = IF fileScoreOf(fmFileName, fmKeys[fmIndex]) > fmBestScore
                      THEN fileScoreOf(fmFileName, fmKeys[fmIndex])
                      ELSE fmBestScore
    /\ fmIndex' = fmIndex + 1
    /\ UNCHANGED << fmPc, fmFileName, fmKeys, fmResult >>
    /\ UNCHANGED << parserVars, wireVars, varintVars, pathVars, idVars, loadVars,
                    heatVars >>

\* return bestMatch
ReturnBestFile ==
    /\ fmPc = "loop"
    /\ fmIndex > Len(fmKeys)
    /\ fmResult' = IF fmBestMatch = 0 THEN NoMetrics ELSE Metrics(fmBestMatch)
    /\ fmPc' = "returned"
    /\ UNCHANGED << fmFileName, fmKeys, fmIndex, fmBestMatch, fmBestScore >>
    /\ UNCHANGED << parserVars, wireVars, varintVars, pathVars, idVars, loadVars,
                    heatVars >>

NextFile ==
    \/ ReturnExactMatch
    \/ StartMatching
    \/ SkipOtherBaseName
    \/ ScoreKey
    \/ ReturnBestFile

SpecFile ==
    InitFile /\ [][NextFile]_vars

(***************************************************************************)
(* Properties of SpecFile                                                  *)
(***************************************************************************)
\* the basename of a path: its last segment
BaseName(path) ==
    Segments(path)[Len(Segments(path))]

\* the directory immediately containing the file, lower-cased; << >> if the
\* path names none
ContainingDir(path) ==
    IF Len(Segments(path)) >= 2
    THEN toLowerCase(Segments(path)[Len(Segments(path)) - 1])
    ELSE << >>

\* 10 + 5 * (segments of fileName present in the key) + 50 if the
\* directories immediately containing the two files are equal ignoring case
StatedFileScore(fileName, key) ==
    10
    + 5 * Cardinality({k \in 1..Len(Segments(fileName)) :
                          \E j \in 1..Len(Segments(key)) :
                              Segments(key)[j] = Segments(fileName)[k]})
    + (IF ContainingDir(fileName) # << >>
          /\ ContainingDir(fileName) = ContainingDir(key)
       THEN 50 ELSE 0)

\* the keys that share the basename of the file
SharingBaseName ==
    {i \in 1..Len(fmKeys) : BaseName(fmKeys[i]) = BaseName(fmFileName)}

\* C24: getFileMetrics returns the entry stored under fileName when fileName
\* is a key; otherwise it returns the entry, among those whose key has the
\* basename of fileName, with the highest score 10 + 5 * (segments of
\* fileName present in the key) + 50 if the containing directories are equal
\* ignoring case, the earliest such key winning ties; it returns undefined
\* exactly when no key has the basename.
C24_BestFileMatch ==
    fmPc = "returned" =>
        IF \E i \in 1..Len(fmKeys) : fmKeys[i] = fmFileName
        THEN /\ fmResult.kind = "metrics"
             /\ fmKeys[fmResult.index] = fmFileName
        ELSE IF SharingBaseName = {}
        THEN fmResult = NoMetrics
        ELSE /\ fmResult.kind = "metrics"
             /\ fmResult.index \in SharingBaseName
             /\ \A j \in SharingBaseName :
                    /\ StatedFileScore(fmFileName, fmKeys[fmResult.index])
                          >= StatedFileScore(fmFileName, fmKeys[j])
                    /\ StatedFileScore(fmFileName, fmKeys[fmResult.index])
                          = StatedFileScore(fmFileName, fmKeys[j])
                              => fmResult.index <= j

\* the second of two keys with the basename was returned: it has the same
\* containing directory up to case, the first shares more segments
C24_Witness ==
    /\ fmPc = "returned"
    /\ ~arrayIncludes(fmKeys, fmFileName)
    /\ Cardinality(SharingBaseName) = 2
    /\ fmResult.kind = "metrics"
    /\ fmResult.index = 2
    /\ ContainingDir(fmFileName) # Segments(fmFileName)[Len(Segments(fmFileName)) - 1]

(***************************************************************************)
(* The 'load profile' command of extension.ts.  JavaScript runs one        *)
(* handler at a time up to its next await, so every action below is one    *)
(* such run and every state is a point where another handler can run.  A   *)
(* profile object is named by the number of the command that parsed it; 0  *)
(* stands for null.                                                        *)
(***************************************************************************)
\* DecorationProvider.setProfile: this.currentProfile = profile
decorationSetProfile(current, profile) ==
    profile

\* (mutation of breakdownSetProfile: the sidebar keeps its profile)
breakdownSetProfile_Kept(current, profile) ==
    current

\* PerformanceBreakdownProvider.setProfile: this.profile = profile
breakdownSetProfile(current, profile) ==
    profile

(***************************************************************************)
(* SpecLoad: up to MaxLoads commands, each free to overlap the others.     *)
(***************************************************************************)
MaxLoads == 3

\* what the chosen file is to parser.parseFile
ProfileFiles ==
    { "profile", "unreadable" }

InitLoad ==
    /\ ParserIdle
    /\ WireIdle
    /\ VarintIdle
    /\ PathIdle
    /\ IdIdle
    /\ FileIdle
    /\ HeatIdle
    /\ loadCommands = << >>
    /\ loadCurrentProfile = 0
    /\ loadDecorationProfile = 0
    /\ loadSidebarProfile = 0

\* the command is invoked: loadProfileFromFile runs up to
\* await vscode.window.showOpenDialog(...)
InvokeLoadProfile ==
    /\ Len(loadCommands) < MaxLoads
    /\ loadCommands' = Append(loadCommands, [pc |-> "dialog", file |-> ""])
    /\ UNCHANGED << loadCurrentProfile, loadDecorationProfile,
                    loadSidebarProfile >>
    /\ UNCHANGED << parserVars, wireVars, varintVars, pathVars, idVars,
                    fileVars, heatVars >>

\* the dialog is dismissed: if (!fileUri || fileUri.length === 0) return
CancelDialog ==
    /\ \E i \in 1..Len(loadCommands) :
          /\ loadCommands[i].pc = "dialog"
          /\ loadCommands' = [loadCommands EXCEPT ![i].pc = "cancelled"]
    /\ UNCHANGED << loadCurrentProfile, loadDecorationProfile,
                    loadSidebarProfile >>
    /\ UNCHANGED << parserVars, wireVars, varintVars, pathVars, idVars,
                    fileVars, heatVars >>

\* a file is chosen: the handler runs up to await parser.parseFile(...)
SelectFile ==
    /\ \E i \in 1..Len(loadCommands) :
          /\ loadCommands[i].pc = "dialog"
          /\ \E file \in ProfileFiles :
                loadCommands' = [loadCommands EXCEPT
                                    ![i] = [pc |-> "parsing", file |-> file]]
    /\ UNCHANGED << loadCurrentProfile, loadDecorationProfile,
                    loadSidebarProfile >>
    /\ UNCHANGED << parserVars, wireVars, varintVars, pathVars, idVars,
                    fileVars, heatVars >>

\* parseFile rejects: the catch block shows the error message
ParseFileRejects ==
    /\ \E i \in 1..Len(loadCommands) :
          /\ loadCommands[i].pc = "parsing"
          /\ loadCommands[i].file = "unreadable"
          /\ loadCommands' = [loadCommands EXCEPT ![i].pc = "failed"]
    /\ UNCHANGED << loadCurrentProfile, loadDecorationProfile,
                    loadSidebarProfile >>
    /\ UNCHANGED << parserVars, wireVars, varintVars, pathVars, idVars,
                    fileVars, heatVars >>

\* parseFile resolves: currentProfile = profile;
\* decorationProvider.setProfile(profile);
\* performanceBreakdownProvider.setProfile(profile); and the rest of the
\* callback, which has no await
ParseFileResolves ==
    /\ \E i \in 1..Len(loadCommands) :
          /\ loadCommands[i].pc = "parsing"
          /\ loadCommands[i].file = "profile"
          /\ loadCommands' = [loadCommands EXCEPT ![i].pc = "loaded"]
          /\ loadCurrentProfile' = i
          /\ loadDecorationProfile' = decorationSetProfile(loadDecorationProfile, i)
          /\ loadSidebarProfile' = breakdownSetProfile(loadSidebarProfile, i)
    /\ UNCHANGED << parserVars, wireVars, varintVars, pathVars, idVars,
                    fileVars, heatVars >>

NextLoad ==
    \/ InvokeLoadProfile
    \/ CancelDialog
    \/ SelectFile
    \/ ParseFileRejects
    \/ ParseFileResolves

SpecLoad ==
    InitLoad /\ [][NextLoad]_vars

(***************************************************************************)
(* Properties of SpecLoad                                                  *)
(***************************************************************************)
\* the three references are to one profile, or all unset
SameProfileEverywhere ==
    /\ loadDecorationProfile = loadCurrentProfile
    /\ loadSidebarProfile = loadCurrentProfile

\* what a step of a command does to the three references
LoadStepEffect ==
    \A i \in 1..Len(loadCommands) :
        /\ (/\ loadCommands[i].pc \in {"dialog", "parsing"}
            /\ loadCommands'[i].pc \in {"cancelled", "failed"})
               => UNCHANGED << loadCurrentProfile, loadDecorationProfile,
                               loadSidebarProfile >>
        /\ (loadCommands[i].pc = "parsing" /\ loadCommands'[i].pc = "loaded")
               => /\ loadCurrentProfile' = i
                  /\ loadDecorationProfile' = i
                  /\ loadSidebarProfile' = i

\* C28: after any sequence of 'load profile' commands, successful, failing,
\* cancelled or overlapping, at every point where a command handler can run
\* currentProfile, the decoration provider's profile and the sidebar
\* provider's profile refer to the same profile or are all unset; a failed or
\* cancelled load leaves all three unchanged and a successful load sets all
\* three to the newly parsed profile.
C28_ProfileReferencesAgree ==
    /\ []SameProfileEverywhere
    /\ [][LoadStepEffect]_vars

\* two overlapping loads ended in the order opposite to the one they were
\* started in, after a failed and before a cancelled one
C28_Witness ==
    /\ Len(loadCommands) >= 3
    /\ loadCommands[1].pc = "loaded"
    /\ loadCommands[2].pc = "loaded"
    /\ loadCommands[3].pc \in {"failed", "cancelled"}
    /\ loadCurrentProfile = 1
    /\ SameProfileEverywhere

(***************************************************************************)
(* DecorationProvider's heat map (decorationProvider.ts, colorUtils.ts).   *)
(* A decoration type is named by the order in which                        *)
(* createTextEditorDecorationType made it; a percentage is a whole number. *)
(***************************************************************************)
\* Math.round(n * 255 / 50) for a whole number n
RoundedChannel(n) ==
    (510 * n + 50) \div 100

\* redYellowGreen(Math.min(percent / 100, 1.0)): << r, g, b >>
redYellowGreen(percent) ==
    IF percent > 50
    THEN << 255, RoundedChannel(100 - IF percent > 100 THEN 100 ELSE percent), 0 >>
    ELSE << RoundedChannel(percent), 255, 0 >>

\* percentToColor with the default colour scheme and a fixed intensity
percentToColor(percent, enabled, threshold) ==
    IF ~enabled \/ percent < threshold
    THEN "transparent"
    ELSE redYellowGreen(percent)

\* config.get('metrics.threshold', 1.0)
DefaultThreshold == 1

\* if (!colorGroups.has(color)) colorGroups.set(color, [])
withColorGroup(colorGroups, color) ==
    IF MapHas(colorGroups, color) THEN colorGroups
    ELSE MapSet(colorGroups, color, << >>)

\* if (line < 0 || line >= lineCount) return; colorGroups.get(color).push(range)
pushRange(colorGroups, color, line, lineCount) ==
    IF line < 0 \/ line >= lineCount THEN colorGroups
    ELSE MapSet(colorGroups, color, Append(MapGet(colorGroups, color), line))

\* the callback of fileMetrics.lineMetrics.forEach, color being
\* percentToColor(percent, config)
groupLine(colorGroups, lineNumber, percent, color, lineCount) ==
    IF percent < DefaultThreshold \/ color = "transparent" THEN colorGroups
    ELSE pushRange(withColorGroup(colorGroups, color), color, lineNumber - 1,
                   lineCount)

RECURSIVE groupLines(_, _, _, _)
groupLines(lineMetrics, i, colorGroups, lineCount) ==
    IF i > Len(lineMetrics) THEN colorGroups
    ELSE groupLines(lineMetrics, i + 1,
                    groupLine(colorGroups, lineMetrics[i].key,
                              lineMetrics[i].value,
                              percentToColor(lineMetrics[i].value, TRUE,
                                             DefaultThreshold),
                              lineCount),
                    lineCount)

\* ranges.reduce((max, r) => Math.max(max, r.start.line), 0)
RECURSIVE maxLineFrom(_, _, _)
maxLineFrom(ranges, i, max) ==
    IF i > Len(ranges) THEN max
    ELSE maxLineFrom(ranges, i + 1, IF ranges[i] > max THEN ranges[i] ELSE max)

\* const maxLine = ...: the key under which the decoration type of a colour
\* group is stored
decorationKey(ranges) ==
    maxLineFrom(ranges, 1, 0)

\* colorGroups.forEach: create a decoration type per colour and store it
RECURSIVE createDecorations(_, _, _, _)
createDecorations(colorGroups, i, decorations, created) ==
    IF i > Len(colorGroups)
    THEN [decorations |-> decorations, created |-> created]
    ELSE createDecorations(colorGroups, i + 1,
                           MapSet(decorations,
                                  decorationKey(colorGroups[i].value),
                                  created + 1),
                           created + 1)

\* the decoration types the map holds
TrackedTypes(decorations) ==
    {decorations[i].value : i \in 1..Len(decorations)}

(***************************************************************************)
(* SpecHeat: up to MaxUpdates calls of updateDecorations on an editor of   *)
(* EditorLineCount lines, then dispose.                                    *)
(***************************************************************************)
MaxUpdates == 2

\* the most lines a file has metrics for
MaxHeatLines == 2

\* editor.document.lineCount
EditorLineCount == 3

\* line numbers of the profile: the first line, a line of the document, a
\* line past its end
HeatLineNumbers ==
    { 1, 2, 5 }

\* totalPercent values: below the threshold, cool, hot
HeatPercents ==
    { 0, 10, 60 }

\* fileMetrics.lineMetrics: a Map from line number to metrics
LineMetricsInputs ==
    UNION { { m \in [1..n -> [key : HeatLineNumbers, value : HeatPercents]] :
                \A i, j \in 1..n : i # j => m[i].key # m[j].key }
            : n \in 0..MaxHeatLines }

InitHeat ==
    /\ ParserIdle
    /\ WireIdle
    /\ VarintIdle
    /\ PathIdle
    /\ IdIdle
    /\ FileIdle
    /\ LoadIdle
    /\ heatDecorations = << >>
    /\ heatCreated = 0
    /\ heatDisposed = {}
    /\ heatUpdates = 0
    /\ heatPc = "active"
    /\ heatLineMetrics = << >>

\* updateDecorations on a file with metrics, the heat map being enabled:
\* applyHeatMap calls clearHeatMap, groups the lines by colour and creates a
\* decoration type per group
UpdateDecorations ==
    /\ heatPc = "active"
    /\ heatUpdates < MaxUpdates
    /\ \E lineMetrics \in LineMetricsInputs :
          /\ heatLineMetrics' = lineMetrics
          /\ heatDecorations' =
                createDecorations(groupLines(lineMetrics, 1, << >>, EditorLineCount),
                                  1, << >>, heatCreated).decorations
          /\ heatCreated' =
                createDecorations(groupLines(lineMetrics, 1, << >>, EditorLineCount),
                                  1, << >>, heatCreated).created
    /\ heatDisposed' = heatDisposed \cup TrackedTypes(heatDecorations)
    /\ heatUpdates' = heatUpdates + 1
    /\ UNCHANGED heatPc
    /\ UNCHANGED << parserVars, wireVars, varintVars, pathVars, idVars,
                    fileVars, loadVars >>

\* updateDecorations on a file without metrics (clearDecorations) or with
\* the heat map disabled: clearHeatMap only
UpdateDecorationsClears ==
    /\ heatPc = "active"
    /\ heatUpdates < MaxUpdates
    /\ heatDisposed' = heatDisposed \cup TrackedTypes(heatDecorations)
    /\ heatDecorations' = << >>
    /\ heatLineMetrics' = << >>
    /\ heatUpdates' = heatUpdates + 1
    /\ UNCHANGED << heatCreated, heatPc >>
    /\ UNCHANGED << parserVars, wireVars, varintVars, pathVars, idVars,
                    fileVars, loadVars >>

\* dispose()
DisposeProvider ==
    /\ heatPc = "active"
    /\ heatDisposed' = heatDisposed \cup TrackedTypes(heatDecorations)
    /\ heatDecorations' = << >>
    /\ heatPc' = "disposed"
    /\ UNCHANGED << heatCreated, heatUpdates, heatLineMetrics >>
    /\ UNCHANGED << parserVars, wireVars, varintVars, pathVars, idVars,
                    fileVars, loadVars >>

NextHeat ==
    \/ UpdateDecorations
    \/ UpdateDecorationsClears
    \/ DisposeProvider

SpecHeat ==
    InitHeat /\ [][NextHeat]_vars

(***************************************************************************)
(* Properties of SpecHeat                                                  *)
(***************************************************************************)
\* C29: after any sequence of updateDecorations calls every heat-map
\* decoration type that applyHeatMap created and that was not disposed yet is
\* tracked in heatMapDecorations, so that the next clearHeatMap or dispose
\* disposes every one of them.
C29_EveryCreatedTypeTracked ==
    \A type \in 1..heatCreated :
        type \notin heatDisposed => type \in TrackedTypes(heatDecorations)

====
